---- MODULE Spec2Model ----
(***************************************************************************)
(* Model of the agent-kg extraction-to-graph pipeline                      *)
(* (src/src/agent_kg): the Pipeline orchestrator, the ontology life cycle  *)
(* driven by the Type Arbiter, symbolic validation and graph building.     *)
(*                                                                         *)
(* Conventions                                                             *)
(*  - Python None is the empty tuple <<>> where the value is otherwise a   *)
(*    tuple (chunk ids), and the address 0 for the ontology reference.     *)
(*  - A text is a sequence of sentence segments; a quote is a sequence of  *)
(*    segments and `q in text` is contiguous containment.                  *)
(*  - A content hash (generate_id) is the tuple of the hashed fields,      *)
(*    tagged with the node kind: equal content, equal id.                  *)
(***************************************************************************)
EXTENDS Integers, Sequences, FiniteSets, TLC

\* ------------------------------------------------------------------------
\* Bounds of the model
\* ------------------------------------------------------------------------
\* Number of batches handed to Pipeline.process in one run.
MaxBatches == 2
\* Number of tool calls the Arbiter agent makes in one governance round.
MaxToolCalls == 2

\* ------------------------------------------------------------------------
\* Program constants
\* ------------------------------------------------------------------------
\* DomainConfig.ontology_staleness_threshold (an option of the domain
\* configuration; the run modelled here configures a small value).
ontology_staleness_threshold == 2
\* Pipeline._should_negotiate_by_drift: min_relations
min_relations == 10
\* Pipeline._should_negotiate_by_drift: drift_threshold, in percent
drift_threshold == 25
\* Pipeline._chunk_documents: chunk_document(..., max_tokens=1024, overlap_tokens=128)
pipeline_max_tokens == 1024
pipeline_overlap_tokens == 128
\* Pipeline._embedding_filter_candidates: auto_merge_threshold, in percent
auto_merge_threshold == 90
\* DomainConfig defaults
qc_enabled == TRUE
entity_resolution_enabled == TRUE
entity_resolution_llm_arbitration == TRUE
\* DomainConfig.entity_resolution_similarity_threshold, in percent
entity_resolution_similarity_threshold == 15
\* DomainConfig.generic_entity_blocklist (the entries the modelled labels can hit)
generic_entity_blocklist == {"agent", "theme", "person", "organisation"}

\* ------------------------------------------------------------------------
\* Strings: labels and the conversions the code applies to them
\* ------------------------------------------------------------------------
RelLabels == {"ACQUIRE_FIRM", "BUY_FIRM"}
EntLabels == {"Company", "Person"}

\* str.lower() on the labels of the model
lower(s) ==
    CASE s = "Company" -> "company"
      [] s = "Person" -> "person"
      [] s = "ACQUIRE_FIRM" -> "acquire_firm"
      [] s = "BUY_FIRM" -> "buy_firm"
      [] OTHER -> s

\* sanitize_for_identifier(name, style="upper") on the labels of the model
sanitize_for_identifier(s) ==
    CASE s = "Company" -> "COMPANY"
      [] s = "company" -> "COMPANY"
      [] s = "Person" -> "PERSON"
      [] s = "person" -> "PERSON"
      [] s = "Device" -> "DEVICE"
      [] s = "acquire" -> "ACQUIRE"
      [] s = "buy" -> "BUY"
      [] s = "ACQUIRE_firm" -> "ACQUIRE_FIRM"
      [] s = "BUY_firm" -> "BUY_FIRM"
      [] OTHER -> s

\* str.strip().title() on the labels and names of the model
title(s) ==
    CASE s = "company" -> "Company"
      [] s = "person" -> "Person"
      [] s = "acme" -> "Acme"
      [] s = "acme inc" -> "Acme Inc"
      [] OTHER -> s

\* f"{verb}_{target_category.strip().replace(' ', '_')}" on the relation types
\* of the model
verb_target(verb, target_category) ==
    CASE verb = "ACQUIRE" /\ target_category = "firm" -> "ACQUIRE_firm"
      [] verb = "BUY" /\ target_category = "firm" -> "BUY_firm"
      [] OTHER -> verb

\* ------------------------------------------------------------------------
\* Sequence helpers
\* ------------------------------------------------------------------------
Range(s) == {s[i] : i \in DOMAIN s}

RECURSIVE Flatten(_)
Flatten(ss) == IF ss = <<>> THEN <<>> ELSE Head(ss) \o Flatten(Tail(ss))

\* [f(x) for x in s if P(x)] is written SelectSeq + a map below.
MapSeq(s, F(_)) == [i \in DOMAIN s |-> F(s[i])]

\* Python `q in t` on texts
IsSubstr(q, t) ==
    \E i \in 0..(Len(t) - Len(q)) : SubSeq(t, i + 1, i + Len(q)) = q

SeqsUpTo(S, n) == UNION {[1..k -> S] : k \in 0..n}

\* ------------------------------------------------------------------------
\* Ontology (models/ontology.py)
\* ------------------------------------------------------------------------
\* OntologyType: label and is_seed (definition text is not modelled).
OntologyType(label, is_seed) == [label |-> label, is_seed |-> is_seed]

\* OntologySchema
OntologySchema(version, parent_version, entity_types, relation_types, docs) ==
    [version |-> version,
     parent_version |-> parent_version,
     entity_types |-> entity_types,
     relation_types |-> relation_types,
     documents_since_last_negotiation |-> docs]

\* parent_version None
NoParent == 0

is_stale_gt(schema, threshold) ==
    schema.documents_since_last_negotiation > threshold

\* OntologySchema.is_stale
is_stale(schema, threshold) ==
    schema.documents_since_last_negotiation >= threshold

\* ------------------------------------------------------------------------
\* Type Arbiter decisions (agents/arbiter_agent.py)
\* ------------------------------------------------------------------------
ArbiterDecision(action, kind, label, merge_target) ==
    [action |-> action, kind |-> kind, label |-> label,
     merge_target |-> merge_target]

Labels(types) == {types[i].label : i \in DOMAIN types}

\* dict.pop(label, None) on an insertion-ordered dict kept as a sequence
DictPop(types, label) == SelectSeq(types, LAMBDA t : t.label # label)

\* dict[label] = value: replace in place when the key exists, else append
DictSet(types, value) ==
    IF value.label \in Labels(types)
    THEN [i \in DOMAIN types |->
            IF types[i].label = value.label THEN value ELSE types[i]]
    ELSE Append(types, value)

\* One iteration of the loop of apply_arbiter_decisions on one of the dicts
ApplyOne(types, d) ==
    CASE d.action = "accept" -> DictSet(types, OntologyType(d.label, FALSE))
      [] d.action = "merge" -> DictPop(types, d.label)
      [] d.action = "reject" -> DictPop(types, d.label)
      [] OTHER -> types

RECURSIVE ApplyAll(_, _, _)
ApplyAll(types, decisions, kind) ==
    IF decisions = <<>> THEN types
    ELSE LET d == Head(decisions)
             \* target = existing_rel if d.kind == "relation" else existing_ent
             mine == IF kind = "relation" THEN d.kind = "relation"
                     ELSE d.kind # "relation"
         IN ApplyAll(IF mine THEN ApplyOne(types, d) ELSE types,
                     Tail(decisions), kind)

\* has: whether current_ontology is not None; cur: the schema when it is
apply_arbiter_decisions_same_version(decisions, has, cur) ==
    OntologySchema(
        IF has THEN cur.version ELSE 1,
        IF has THEN cur.version ELSE NoParent,
        ApplyAll(IF has THEN cur.entity_types ELSE <<>>, decisions, "entity"),
        ApplyAll(IF has THEN cur.relation_types ELSE <<>>, decisions, "relation"),
        0)

apply_arbiter_decisions(decisions, has, cur) ==
    OntologySchema(
        IF has THEN cur.version + 1 ELSE 1,
        IF has THEN cur.version ELSE NoParent,
        ApplyAll(IF has THEN cur.entity_types ELSE <<>>, decisions, "entity"),
        ApplyAll(IF has THEN cur.relation_types ELSE <<>>, decisions, "relation"),
        0)

\* ------------------------------------------------------------------------
\* Entities, roles, relations (models/base.py)
\* ------------------------------------------------------------------------
\* Entity: label and name are title-cased by the field validator; confidence
\* in percent; aliases is metadata["aliases"], empty while metadata is None
Entity(label, name, definition, confidence) ==
    [label |-> title(label), name |-> title(name), definition |-> definition,
     confidence |-> confidence, aliases |-> {}]

Roles(agents, themes, context, candidate_entity_types) ==
    [agents |-> agents, themes |-> themes, context |-> context,
     candidate_entity_types |-> candidate_entity_types]

\* Roles.all_entities (the role lists the model populates)
all_entities(roles) == roles.agents \o roles.themes \o roles.context

\* One item of Source.evidence: a quote and the chunk it was assigned to
Evidence(quote, chunk_id) == [quote |-> quote, chunk_id |-> chunk_id]

\* RawRelation; `run` names the extraction pass that created the object
RawRelation(run, doc, rt, desc, evidence, confidence) ==
    [run |-> run, doc |-> doc, rt |-> rt, desc |-> desc,
     evidence |-> evidence, confidence |-> confidence]

\* RawRelation.with_roles
with_roles(raw, roles) ==
    [run |-> raw.run, doc |-> raw.doc, rt |-> raw.rt, desc |-> raw.desc,
     evidence |-> raw.evidence, confidence |-> raw.confidence,
     roles |-> roles]

\* Source.chunk_id: the chunk of the first evidence item
source_chunk_id(rel) ==
    IF rel.evidence = <<>> THEN <<>> ELSE rel.evidence[1].chunk_id

\* Entity.check_not_generic raises ValueError
check_not_generic_raises(entity, blocklist) ==
    lower(entity.label) \in {lower(b) : b \in blocklist}

\* ------------------------------------------------------------------------
\* Symbolic validation (validation/rules.py)
\* ------------------------------------------------------------------------
confidence_threshold == 30

Violation(rule_name, severity) == [rule_name |-> rule_name, severity |-> severity]

check_has_agent_and_theme(relation) ==
    (IF Len(relation.roles.agents) < 1
     THEN <<Violation("has_agent_and_theme", "error")>> ELSE <<>>)
    \o
    (IF Len(relation.roles.themes) < 1
     THEN <<Violation("has_agent_and_theme", "error")>> ELSE <<>>)

check_no_generic_entity_labels(entity, blocklist) ==
    IF lower(entity.label) \in {lower(b) : b \in blocklist}
    THEN <<Violation("no_generic_entity_labels", "error")>>
    ELSE <<>>

\* quote.strip() is non-empty: quotes of the model carry no blank segment
IsBlank(quote) == quote = <<>>

check_source_non_empty(relation) ==
    IF relation.evidence = <<>>
       \/ ~ \E i \in DOMAIN relation.evidence : ~IsBlank(relation.evidence[i].quote)
    THEN <<Violation("source_non_empty", "warning")>>
    ELSE <<>>

check_confidence_threshold(relation, threshold) ==
    IF relation.confidence < threshold
    THEN <<Violation("low_confidence", "warning")>>
    ELSE <<>>

check_no_duplicate_entities_in_relation(relation) ==
    LET ents == all_entities(relation.roles)
        key(e) == <<lower(e.label), lower(e.name)>>
        dup(i) == \E j \in 1..(i - 1) : key(ents[j]) = key(ents[i])
        idx == SelectSeq([i \in DOMAIN ents |-> i], dup)
    IN [i \in DOMAIN idx |-> Violation("duplicate_entity_in_relation", "warning")]

\* dict.get(key, default) on a dict kept as a function
DictGet(d, k, default) == IF k \in DOMAIN d THEN d[k] ELSE default

\* check_quotes_are_verbatim reading the document text for every quote
check_quotes_against_document(relation, document_text, chunk_texts) ==
    LET bad(ev) == document_text # <<>> /\ ~IsSubstr(ev.quote, document_text)
        hits == SelectSeq(relation.evidence, bad)
    IN [i \in DOMAIN hits |-> Violation("quote_not_verbatim", "error")]

check_quotes_are_verbatim(relation, document_text, chunk_texts) ==
    IF document_text = <<>> /\ DOMAIN chunk_texts = {}
    THEN <<>>
    ELSE
      LET ref(ev) ==
              LET c_text == IF DOMAIN chunk_texts # {} /\ ev.chunk_id # <<>>
                            THEN DictGet(chunk_texts, ev.chunk_id, <<>>)
                            ELSE <<>>
              IN IF c_text # <<>> THEN c_text ELSE document_text
          bad(ev) == ref(ev) # <<>> /\ ~IsSubstr(ev.quote, ref(ev))
          hits == SelectSeq(relation.evidence, bad)
      IN [i \in DOMAIN hits |-> Violation("quote_not_verbatim", "error")]

\* The body of the loop of run_symbolic_validation for one relation
validate_relation(relation, blocklist, doc_texts, chunk_texts) ==
    LET doc_text == DictGet(doc_texts, relation.doc, <<>>)
        ents == all_entities(relation.roles)
    IN check_has_agent_and_theme(relation)
       \o check_source_non_empty(relation)
       \o check_confidence_threshold(relation, confidence_threshold)
       \o check_no_duplicate_entities_in_relation(relation)
       \o (IF DOMAIN chunk_texts # {} \/ doc_text # <<>>
           THEN check_quotes_are_verbatim(relation, doc_text, chunk_texts)
           ELSE <<>>)
       \o Flatten([i \in DOMAIN ents |->
                      check_no_generic_entity_labels(ents[i], blocklist)])

run_symbolic_validation(relations, blocklist, doc_texts, chunk_texts) ==
    Flatten([i \in DOMAIN relations |->
                validate_relation(relations[i], blocklist, doc_texts, chunk_texts)])

Errors(violations) == SelectSeq(violations, LAMBDA v : v.severity = "error")

\* Pipeline._validate rejecting on any violation, warnings included
validate_reject_on_warning(relations, blocklist, doc_texts, chunk_texts) ==
    LET viol(r) == run_symbolic_validation(<<r>>, blocklist, doc_texts, chunk_texts)
        has_any(r) == viol(r) # <<>>
        rejected == SelectSeq(relations, has_any)
        valid == SelectSeq(relations, LAMBDA r : ~has_any(r))
        all_violations == Flatten([i \in DOMAIN relations |-> viol(relations[i])])
    IN [valid |-> valid, rejected |-> rejected,
        violations_count |-> Len(all_violations),
        rejected_count |-> Len(rejected),
        errors |-> Errors(all_violations)]

\* Pipeline._validate failing open: the rejected relations stay in the list
\* that is exported
validate_keep_rejected(relations, blocklist, doc_texts, chunk_texts) ==
    LET viol(r) == run_symbolic_validation(<<r>>, blocklist, doc_texts, chunk_texts)
        has_err(r) == Errors(viol(r)) # <<>>
        rejected == SelectSeq(relations, has_err)
        all_violations == Flatten([i \in DOMAIN relations |-> viol(relations[i])])
    IN [valid |-> relations, rejected |-> rejected,
        violations_count |-> Len(all_violations),
        rejected_count |-> Len(rejected),
        errors |-> Errors(all_violations)]

\* Pipeline._validate: the partition and the counts it returns; `errors` is
\* the list handed to the Validator agent (empty: no agent is created).
validate(relations, blocklist, doc_texts, chunk_texts) ==
    LET viol(r) == run_symbolic_validation(<<r>>, blocklist, doc_texts, chunk_texts)
        has_err(r) == Errors(viol(r)) # <<>>
        rejected == SelectSeq(relations, has_err)
        valid == SelectSeq(relations, LAMBDA r : ~has_err(r))
        all_violations == Flatten([i \in DOMAIN relations |-> viol(relations[i])])
        all_errors == Errors(all_violations)
    IN IF relations = <<>>
       THEN [valid |-> <<>>, rejected |-> <<>>, violations_count |-> 0,
             rejected_count |-> 0, errors |-> <<>>]
       ELSE IF all_errors = <<>>
       THEN [valid |-> valid, rejected |-> rejected,
             violations_count |-> Len(all_violations),
             rejected_count |-> 0, errors |-> <<>>]
       ELSE [valid |-> valid, rejected |-> rejected,
             violations_count |-> Len(all_violations),
             rejected_count |-> Len(rejected), errors |-> all_errors]

\* ------------------------------------------------------------------------
\* Chunking at segment granularity (utils/chunking.py)
\* ------------------------------------------------------------------------
\* len(enc.encode(segment)) for the segments of the modelled documents, and
\* for the characters of the texts chunked character by character: "W" is a
\* character the byte-level encoding spends two tokens on
SegTokens(seg) ==
    CASE seg = "s1" -> 600
      [] seg = "s2" -> 600
      [] seg = "W" -> 2
      [] OTHER -> 1

\* generate_chunk_id: hash of (document_id, chunk_index, chunk_text)
generate_chunk_id(document_id, index, chunk_text) ==
    <<"Chunk", document_id, index, chunk_text>>

\* The inner `while j < len(sentences)` loop on sent_tokens: the first index
\* not in the window
RECURSIVE WindowEnd(_, _, _, _, _)
WindowEnd(sent_tokens, j, window_tokens, nonempty, max_tokens) ==
    IF j > Len(sent_tokens) THEN j
    ELSE IF window_tokens + sent_tokens[j] > max_tokens /\ nonempty THEN j
    ELSE WindowEnd(sent_tokens, j + 1, window_tokens + sent_tokens[j],
                   TRUE, max_tokens)

RECURSIVE SumTokens(_)
SumTokens(segs) == IF segs = <<>> THEN 0 ELSE SegTokens(Head(segs)) + SumTokens(Tail(segs))

\* `for k in reversed(window_sents)`: the segment to rewind to, j when none
RECURSIVE RewindTo(_, _, _, _, _, _)
RewindTo(sent_tokens, k, idx, overlap_acc, j, overlap_tokens) ==
    IF k < idx THEN j
    ELSE IF overlap_acc + sent_tokens[k] >= overlap_tokens THEN k
    ELSE RewindTo(sent_tokens, k - 1, idx, overlap_acc + sent_tokens[k],
                  j, overlap_tokens)

\* The outer `while idx < len(sentences)` loop from cursor idx (1-based)
RECURSIVE ChunkFrom(_, _, _, _, _, _)
ChunkFrom(sentences, document_id, idx, chunk_index, max_tokens, overlap_tokens) ==
    IF idx > Len(sentences) THEN <<>>
    ELSE
      LET sent_tokens == [s \in DOMAIN sentences |-> SegTokens(sentences[s])]
          j == WindowEnd(sent_tokens, idx, 0, FALSE, max_tokens)
          chunk_text == SubSeq(sentences, idx, j - 1)
          c == [chunk_id |-> generate_chunk_id(document_id, chunk_index, chunk_text),
                document_id |-> document_id,
                index |-> chunk_index,
                text |-> chunk_text,
                token_count |-> SumTokens(chunk_text)]
          rewind_to == RewindTo(sent_tokens, j - 1, idx, 0, j, overlap_tokens)
          next_idx == IF rewind_to > idx THEN rewind_to ELSE j
      IN IF j > Len(sentences)
         THEN <<c>>
         ELSE <<c>> \o ChunkFrom(sentences, document_id, next_idx,
                                 chunk_index + 1, max_tokens, overlap_tokens)

\* chunk_document on a text already split into segments
chunk_document(text, document_id, max_tokens, overlap_tokens) ==
    IF text = <<>> THEN <<>>
    ELSE ChunkFrom(text, document_id, 1, 0, max_tokens, overlap_tokens)

\* ------------------------------------------------------------------------
\* Chunk-id assignment and mentions (workflow/pipeline.py)
\* ------------------------------------------------------------------------
\* _overlap_length (the module-level definition, which is the one bound at
\* call time): the longest prefix of the quote found at some position of text
RECURSIVE PrefixAt(_, _, _, _)
PrefixAt(text, quote, i, k) ==
    IF i + k <= Len(text) /\ k < Len(quote) /\ text[i + k] = quote[k + 1]
    THEN PrefixAt(text, quote, i, k + 1)
    ELSE k

Max(S) == CHOOSE x \in S : \A y \in S : y <= x

overlap_length(text, quote) ==
    Max({0} \cup {PrefixAt(text, quote, i, 0) : i \in 1..Len(text)})

\* max(chunks, key=...): the first chunk of maximal key
FirstMax(chunks, quote) ==
    LET best == Max({overlap_length(chunks[i].text, quote) : i \in DOMAIN chunks})
        i0 == CHOOSE i \in DOMAIN chunks :
                /\ overlap_length(chunks[i].text, quote) = best
                /\ \A j \in 1..(i - 1) : overlap_length(chunks[j].text, quote) # best
    IN chunks[i0]

\* The chunk one evidence item is assigned to
assign_evidence(evidence, chunks) ==
    IF IsBlank(evidence.quote) THEN evidence
    ELSE IF \E i \in DOMAIN chunks : IsSubstr(evidence.quote, chunks[i].text)
    THEN LET i0 == CHOOSE i \in DOMAIN chunks :
                     /\ IsSubstr(evidence.quote, chunks[i].text)
                     /\ \A j \in 1..(i - 1) : ~IsSubstr(evidence.quote, chunks[j].text)
         IN Evidence(evidence.quote, chunks[i0].chunk_id)
    ELSE Evidence(evidence.quote, FirstMax(chunks, evidence.quote).chunk_id)

\* Pipeline._assign_chunk_ids; doc_chunks is document_id -> list of chunks
assign_chunk_ids(relations, doc_chunks) ==
    [i \in DOMAIN relations |->
        LET rel == relations[i]
            chunks == DictGet(doc_chunks, rel.doc, <<>>)
        IN IF chunks = <<>> THEN rel
           ELSE [rel EXCEPT !.evidence =
                    [k \in DOMAIN rel.evidence |->
                        assign_evidence(rel.evidence[k], chunks)]]]

\* generate_mention_id
generate_mention_id(chunk_id, surface_form, entity_name, entity_label) ==
    <<"Mention", chunk_id, surface_form, entity_name, entity_label>>

Mention(chunk_id, surface_form, entity_name, entity_label, role) ==
    [mention_id |-> generate_mention_id(chunk_id, surface_form, entity_name, entity_label),
     surface_form |-> surface_form,
     entity_name |-> entity_name,
     entity_label |-> entity_label,
     chunk_id |-> chunk_id,
     role |-> role]

\* The roles of the entities of all_entities, in its order
all_roles(roles) ==
    [k \in DOMAIN roles.agents |-> "agent"] \o [k \in DOMAIN roles.themes |-> "theme"]
    \o [k \in DOMAIN roles.context |-> "context"]

\* Pipeline._snapshot_surface_forms: per relation, the (name, label, role) of
\* its entities before resolution
snapshot_surface_forms(relations) ==
    [i \in DOMAIN relations |->
        LET ents == all_entities(relations[i].roles)
            roles == all_roles(relations[i].roles)
        IN [k \in DOMAIN ents |-> <<ents[k].name, ents[k].label, roles[k]>>]]

\* Append unless a mention of the same id is already there
RECURSIVE DedupById(_, _)
DedupById(ms, acc) ==
    IF ms = <<>> THEN acc
    ELSE IF \E i \in DOMAIN acc : acc[i].mention_id = Head(ms).mention_id
    THEN DedupById(Tail(ms), acc)
    ELSE DedupById(Tail(ms), Append(acc, Head(ms)))

\* _collect_mentions reading the surface form from the entity as it is after
\* resolution instead of the snapshot
collect_mentions_after_resolution(relations, surface_snapshot) ==
    LET of_rel(i) ==
            LET rel == relations[i]
                ents == all_entities(rel.roles)
                roles == all_roles(rel.roles)
            IN [k \in DOMAIN ents |->
                  Mention(source_chunk_id(rel), ents[k].name, ents[k].name,
                          ents[k].label, roles[k])]
    IN DedupById(Flatten([i \in DOMAIN relations |-> of_rel(i)]), <<>>)

\* Pipeline._collect_mentions
collect_mentions(relations, surface_snapshot) ==
    LET of_rel(i) ==
            LET rel == relations[i]
                ents == all_entities(rel.roles)
                forms == IF i \in DOMAIN surface_snapshot
                         THEN surface_snapshot[i] ELSE <<>>
                n == IF Len(forms) < Len(ents) THEN Len(forms) ELSE Len(ents)
            IN [k \in 1..n |->
                  Mention(source_chunk_id(rel), forms[k][1], ents[k].name,
                          ents[k].label, forms[k][3])]
    IN DedupById(Flatten([i \in DOMAIN relations |-> of_rel(i)]), <<>>)

\* ------------------------------------------------------------------------
\* Candidate collection (workflow/pipeline.py)
\* ------------------------------------------------------------------------
\* RelationType: the verb is normalised and the label computed from it
RelationType(verb, target_category) ==
    LET v == sanitize_for_identifier(verb)
    IN [verb |-> v, target_category |-> target_category,
        label |-> sanitize_for_identifier(verb_target(v, target_category))]

CandidateType(kind, label) == [kind |-> kind, label |-> label]

\* Append the candidates of cs whose (kind, label) was not seen before
RECURSIVE HarvestUnseen(_, _)
HarvestUnseen(cs, acc) ==
    IF cs = <<>> THEN acc
    ELSE IF Head(cs).label # "" /\ Head(cs) \notin Range(acc)
    THEN HarvestUnseen(Tail(cs), Append(acc, Head(cs)))
    ELSE HarvestUnseen(Tail(cs), acc)

\* The candidates one relation proposes, in the order of the harvest loop
candidates_of(rel) ==
    <<CandidateType("relation", rel.rt.label)>>
    \o MapSeq(all_entities(rel.roles), LAMBDA e : CandidateType("entity", e.label))
    \o MapSeq(rel.roles.candidate_entity_types,
              LAMBDA l : CandidateType("entity", l))

\* Pipeline._embedding_filter_candidates: `if max_sim > auto_merge_threshold`
embedding_filter_candidates_gt(cands, has, cur, sims) ==
    IF ~has THEN <<>>
    ELSE IF cur.relation_types \o cur.entity_types = <<>> THEN <<>>
    ELSE SelectSeq(cands, LAMBDA c : sims[c] > auto_merge_threshold)

\* Pipeline._embedding_filter_candidates; sims[c] is max(sims[i]) in percent:
\* the largest cosine similarity of candidate c to an existing type, relation
\* and entity types together
embedding_filter_candidates(cands, has, cur, sims) ==
    IF ~has THEN <<>>
    ELSE IF cur.relation_types \o cur.entity_types = <<>> THEN <<>>
    ELSE SelectSeq(cands, LAMBDA c : sims[c] >= auto_merge_threshold)

\* Pipeline._collect_candidates
collect_candidates(relations, has, cur, sims) ==
    LET known_rel == IF has THEN Labels(cur.relation_types) ELSE {}
        known_ent == IF has THEN Labels(cur.entity_types) ELSE {}
        raw_candidates ==
            HarvestUnseen(Flatten([i \in DOMAIN relations |->
                                      candidates_of(relations[i])]), <<>>)
        norm_known_rel == {sanitize_for_identifier(l) : l \in known_rel}
        norm_known_ent == {sanitize_for_identifier(l) : l \in known_ent}
        novel(c) ==
            sanitize_for_identifier(c.label) \notin
                (IF c.kind = "relation" THEN norm_known_rel ELSE norm_known_ent)
        after_stage1 == SelectSeq(raw_candidates, novel)
        auto_merged == embedding_filter_candidates(after_stage1, has, cur, sims)
    IN IF after_stage1 = <<>> THEN <<>>
       ELSE SelectSeq(after_stage1, LAMBDA c : c \notin Range(auto_merged))

RECURSIVE Sum(_)
Sum(s) == IF s = <<>> THEN 0 ELSE Head(s) + Sum(Tail(s))

\* Pipeline._compute_drift_score. max_sims[i] is np.max(sims, axis=1)[i] in
\* percent: the largest cosine similarity of relation i to a relation type.
\* The score is the exact fraction num/den of a percent: no rounding of the mean.
compute_drift_score(has, cur, extracted_relations, max_sims) ==
    IF ~has \/ cur.relation_types = <<>> \/ extracted_relations = <<>>
    THEN [num |-> 100, den |-> 1]
    ELSE LET n == Len(extracted_relations)
             \* 1.0 - mean_sim = (100 * n - sum) / n
         IN [num |-> Max({0, 100 * n - Sum(max_sims)}), den |-> n]

\* Pipeline._should_negotiate_by_drift
should_negotiate_by_drift(has, cur, extracted_relations, max_sims) ==
    IF ~has \/ cur.relation_types = <<>> THEN TRUE
    ELSE IF Len(extracted_relations) < min_relations THEN FALSE
    ELSE LET drift_score == compute_drift_score(has, cur, extracted_relations, max_sims)
         \* drift_score >= drift_threshold
         IN drift_score.num >= drift_threshold * drift_score.den

\* ------------------------------------------------------------------------
\* Graph elements (models/graph.py)
\* ------------------------------------------------------------------------
GraphNode(id, labels, properties) ==
    [id |-> id, labels |-> labels, properties |-> properties]

GraphEdge(source_id, target_id, relation_type) ==
    [source_id |-> source_id, target_id |-> target_id,
     relation_type |-> relation_type]

\* A node ID that hashes the name of the entity alone
entity_id_of_name(label, name) == <<"Entity", name>>

\* generate_id of the dicts the builders hash; the tag stands for the key set
entity_id(label, name) == <<"Entity", label, name>>
document_node_id(document_id) == <<"Document", document_id>>
relation_node_id(relation) ==
    <<"Relation", relation.rt.verb, relation.rt.target_category,
      relation.desc, relation.doc>>

\* _entity_node; aliases is empty for an entity without metadata["aliases"]
entity_node(entity) ==
    GraphNode(entity_id(entity.label, entity.name), <<"Entity", entity.label>>,
              [name |-> entity.name, label_class |-> entity.label,
               definition |-> entity.definition, confidence |-> entity.confidence,
               aliases |-> entity.aliases])

chunk_node(chunk) ==
    GraphNode(chunk.chunk_id, <<"Chunk">>,
              [document_id |-> chunk.document_id, chunk_index |-> chunk.index,
               text |-> chunk.text, token_count |-> chunk.token_count])

mention_node(mention) ==
    GraphNode(mention.mention_id, <<"Mention">>,
              [surface_form |-> mention.surface_form,
               entity_name |-> mention.entity_name,
               entity_label |-> mention.entity_label,
               role |-> mention.role, chunk_id |-> mention.chunk_id])

\* _relation_node: labels are Relation.labels without the empty ones
relation_node(relation) ==
    LET labels == SelectSeq(<<relation.rt.verb, relation.rt.label>>,
                            LAMBDA l : l # "")
    IN GraphNode(relation_node_id(relation),
                 IF labels = <<>> THEN <<"Relation">> ELSE labels,
                 [description |-> relation.desc, verb |-> relation.rt.verb,
                  target_category |-> relation.rt.target_category,
                  confidence |-> relation.confidence,
                  quotes |-> [k \in DOMAIN relation.evidence |->
                                 relation.evidence[k].quote],
                  document_id |-> relation.doc])

\* nodes[node.id] = node on the insertion-ordered dict of nodes
NodePut(nodes, node) ==
    IF \E i \in DOMAIN nodes : nodes[i].id = node.id
    THEN [i \in DOMAIN nodes |-> IF nodes[i].id = node.id THEN node ELSE nodes[i]]
    ELSE Append(nodes, node)

RECURSIVE NodePutAll(_, _)
NodePutAll(nodes, new) ==
    IF new = <<>> THEN nodes ELSE NodePutAll(NodePut(nodes, Head(new)), Tail(new))

\* The role map of one relation: AGENT, THEME, then CONTEXT entities
role_map(relation) ==
    MapSeq(relation.roles.agents, LAMBDA e : <<"AGENT", e>>)
    \o MapSeq(relation.roles.themes, LAMBDA e : <<"THEME", e>>)
    \o MapSeq(relation.roles.context, LAMBDA e : <<"CONTEXT", e>>)

\* The relation loop linking a relation to whatever chunk its evidence names
relation_elements_any_chunk(relation, doc_node_id, chunk_id_set) ==
    LET rel_node == relation_node(relation)
        chunk_id == source_chunk_id(relation)
        from == IF chunk_id # <<>>
                THEN GraphEdge(rel_node.id, chunk_id, "EXTRACTED_FROM")
                ELSE GraphEdge(rel_node.id, doc_node_id, "EXTRACTED_FROM")
        rm == role_map(relation)
    IN [nodes |-> <<rel_node>> \o MapSeq(rm, LAMBDA p : entity_node(p[2])),
        edges |-> <<from>> \o
                  MapSeq(rm, LAMBDA p :
                      GraphEdge(rel_node.id, entity_node(p[2]).id, p[1]))]

\* The nodes and edges one relation adds in the loop of build_graph_elements
relation_elements(relation, doc_node_id, chunk_id_set) ==
    LET rel_node == relation_node(relation)
        chunk_id == source_chunk_id(relation)
        from == IF chunk_id # <<>> /\ chunk_id \in chunk_id_set
                THEN GraphEdge(rel_node.id, chunk_id, "EXTRACTED_FROM")
                ELSE GraphEdge(rel_node.id, doc_node_id, "EXTRACTED_FROM")
        rm == role_map(relation)
    IN [nodes |-> <<rel_node>> \o MapSeq(rm, LAMBDA p : entity_node(p[2])),
        edges |-> <<from>> \o
                  MapSeq(rm, LAMBDA p :
                      GraphEdge(rel_node.id, entity_node(p[2]).id, p[1]))]

\* The edges one mention adds, given the nodes present when it is reached
mention_edges(mention, doc_node_id, chunk_id_set, nodes) ==
    LET m_node == mention_node(mention)
        has_mention ==
            IF mention.chunk_id # <<>> /\ mention.chunk_id \in chunk_id_set
            THEN GraphEdge(mention.chunk_id, m_node.id, "HAS_MENTION")
            ELSE GraphEdge(doc_node_id, m_node.id, "HAS_MENTION")
        ent_id == entity_id(mention.entity_label, mention.entity_name)
    IN IF \E i \in DOMAIN nodes : nodes[i].id = ent_id
       THEN <<has_mention, GraphEdge(m_node.id, ent_id, "REFERS_TO")>>
       ELSE <<has_mention>>

build_graph_elements(relations, document_id, chunks, mentions) ==
    LET doc_node == GraphNode(document_node_id(document_id), <<"Document">>,
                             [document_id |-> document_id])
        chunk_id_set == {chunks[i].chunk_id : i \in DOMAIN chunks}
        rel_parts == [i \in DOMAIN relations |->
                         relation_elements(relations[i], doc_node.id, chunk_id_set)]
        nodes1 == NodePutAll(<<doc_node>>, MapSeq(chunks, chunk_node))
        nodes2 == NodePutAll(nodes1,
                             Flatten([i \in DOMAIN rel_parts |-> rel_parts[i].nodes]))
        nodes3 == NodePutAll(nodes2, MapSeq(mentions, mention_node))
        edges1 == MapSeq(chunks, LAMBDA c :
                             GraphEdge(doc_node.id, c.chunk_id, "HAS_CHUNK"))
        edges2 == Flatten([i \in DOMAIN rel_parts |-> rel_parts[i].edges])
        \* a mention node is never an Entity node: the nodes seen by the
        \* REFERS_TO test are those of the relations
        edges3 == Flatten([i \in DOMAIN mentions |->
                     mention_edges(mentions[i], doc_node.id, chunk_id_set, nodes2)])
    IN [nodes |-> nodes3, edges |-> edges1 \o edges2 \o edges3]

\* ------------------------------------------------------------------------
\* Batch assembly (workflow/pipeline.py)
\* ------------------------------------------------------------------------
\* Pipeline._chunk_documents: document_id -> chunks
chunk_documents(documents) ==
    [id \in {documents[i].id : i \in DOMAIN documents} |->
        LET i0 == CHOOSE i \in DOMAIN documents :
                    /\ documents[i].id = id
                    /\ \A j \in (i + 1)..Len(documents) : documents[j].id # id
        IN chunk_document(documents[i0].text, id,
                          pipeline_max_tokens, pipeline_overlap_tokens)]

\* chunk_texts = {c.chunk_id: c.text for chunks in doc_chunks.values() for c in chunks}
chunk_texts_of(doc_chunks) ==
    LET all == UNION {Range(doc_chunks[d]) : d \in DOMAIN doc_chunks}
    IN [cid \in {c.chunk_id : c \in all} |->
           (CHOOSE c \in all : c.chunk_id = cid).text]

\* doc_texts = {d.id: d.text for d in documents}
doc_texts_of(documents) ==
    [id \in {documents[i].id : i \in DOMAIN documents} |->
        LET i0 == CHOOSE i \in DOMAIN documents :
                    /\ documents[i].id = id
                    /\ \A j \in (i + 1)..Len(documents) : documents[j].id # id
        IN documents[i0].text]

\* extract_raw_relations: the relations of a successful structured call, with
\* document_id stamped on each; `run` names the pass that made the call
extract_raw_relations(doc, response, run) ==
    [i \in DOMAIN response.relations |->
        LET r == response.relations[i]
        IN RawRelation(run, doc.id, r.rt, r.desc,
                       MapSeq(r.quotes, LAMBDA q : Evidence(q, <<>>)),
                       r.confidence)]

\* extract_roles: None is the empty sequence, a Relation a one-element sequence
extract_roles(raw_relation, response, blocklist) ==
    IF response.raised THEN <<>>
    ELSE IF \E e \in Range(all_entities(response.roles)) :
                check_not_generic_raises(e, blocklist)
    THEN <<>>
    ELSE <<with_roles(raw_relation, response.roles)>>

\* Pipeline._fill_roles_batch stopping at the first relation it cannot fill
RECURSIVE fill_roles_batch_stop_at_failure(_, _, _)
fill_roles_batch_stop_at_failure(raw_relations, responses, blocklist) ==
    IF raw_relations = <<>> THEN <<>>
    ELSE LET relation == extract_roles(Head(raw_relations), Head(responses), blocklist)
         IN IF relation = <<>> THEN <<>>
            ELSE relation \o fill_roles_batch_stop_at_failure(
                                 Tail(raw_relations), Tail(responses), blocklist)

\* Pipeline._fill_roles_batch; responses[i] is the structured call's outcome
\* for raw_relations[i]
fill_roles_batch(raw_relations, responses, blocklist) ==
    Flatten([i \in DOMAIN raw_relations |->
                extract_roles(raw_relations[i], responses[i], blocklist)])

\* ------------------------------------------------------------------------
\* Entity resolution (executors/entity_resolution.py)
\* ------------------------------------------------------------------------
\* _normalise on the labels and names of the model: lower case, punctuation
\* stripped, white space collapsed
normalise(s) ==
    CASE s = "Company" -> "company"
      [] s = "Person" -> "person"
      [] s = "Acme" -> "acme"
      [] s = "Acme Inc" -> "acme inc"
      [] s = "Acme Inc." -> "acme inc"
      [] s = "Acme Corp" -> "acme corp"
      [] s = "Bolt" -> "bolt"
      [] s = "Bob" -> "bob"
      [] OTHER -> s

\* The role list a mention of a relation lies in
role_list(roles, role) ==
    CASE role = "agent" -> roles.agents
      [] role = "theme" -> roles.themes
      [] OTHER -> roles.context

\* _Mention. A mention of a relation refers to the Entity object at
\* (relation_index, role, pos); a phantom carries its own Entity object.
\* embed_text is the triple the f-string joins.
resolver_mention(entity, relation_index, role, pos, is_known) ==
    [relation_index |-> relation_index, role |-> role, pos |-> pos,
     is_known |-> is_known,
     known_entity |-> entity,
     norm_key |-> <<normalise(entity.label), normalise(entity.name)>>,
     embed_text |-> <<entity.name, entity.label, entity.definition>>]

\* m.entity: the object a mention refers to, as it is now
entity_of(relations, m) ==
    IF m.is_known THEN m.known_entity
    ELSE role_list(relations[m.relation_index].roles, m.role)[m.pos]

\* _build_mentions (the role lists the model populates)
build_mentions(relations) ==
    Flatten([ri \in DOMAIN relations |->
        Flatten([r \in 1..3 |->
            LET role == <<"agent", "theme", "context">>[r]
                entities == role_list(relations[ri].roles, role)
            IN [k \in DOMAIN entities |->
                   resolver_mention(entities[k], ri, role, k, FALSE)]])])

\* _build_known_mentions; a known entity is a dict of name, label, definition
build_known_mentions(known_entities) ==
    LET usable == SelectSeq(known_entities, LAMBDA d : d.name # "" /\ d.label # "")
    IN [k \in DOMAIN usable |->
           resolver_mention(Entity(usable[k].label, usable[k].name,
                                   IF usable[k].definition = ""
                                   THEN "entity of its label"
                                   ELSE usable[k].definition, 100),
                            0, "known", k, TRUE)]

\* The elements of a sequence in the order of their first occurrence
RECURSIVE FirstOccurrences(_, _)
FirstOccurrences(s, acc) ==
    IF s = <<>> THEN acc
    ELSE FirstOccurrences(Tail(s), IF Head(s) \in Range(acc) THEN acc
                                   ELSE Append(acc, Head(s)))

\* _group_by_norm_key: the groups in the insertion order of the dict
group_by_norm_key(mentions) ==
    LET keys == FirstOccurrences([i \in DOMAIN mentions |-> mentions[i].norm_key], <<>>)
    IN [g \in DOMAIN keys |-> SelectSeq(mentions, LAMBDA m : m.norm_key = keys[g])]

\* cosine_distances of two embed texts in percent, under an embedding model
\* whose vectors depend on the entity name: geometry gives the distance of
\* two different names
cosine_distance(geometry, text1, text2) ==
    IF text1[1] = text2[1] THEN 0 ELSE geometry[{text1[1], text2[1]}]

\* The sum of the distances of the pairs of rows of a set
RECURSIVE sum_distances(_, _, _)
sum_distances(geometry, texts, pairs) ==
    IF pairs = {} THEN 0
    ELSE LET p == CHOOSE q \in pairs : TRUE
         IN cosine_distance(geometry, texts[p[1]], texts[p[2]])
            + sum_distances(geometry, texts, pairs \ {p})

\* Average linkage of two clusters of indices, as the fraction num/den
average_linkage(geometry, texts, c1, c2) ==
    [num |-> sum_distances(geometry, texts, c1 \X c2),
     den |-> Cardinality(c1) * Cardinality(c2)]

\* sklearn AgglomerativeClustering(n_clusters=None, distance_threshold,
\* metric="precomputed", linkage="average"): the two clusters of least
\* linkage are merged as long as that linkage is below the threshold
RECURSIVE agglomerate(_, _, _, _)
agglomerate(geometry, texts, clusters, threshold) ==
    LET pairs == {pr \in SUBSET clusters : Cardinality(pr) = 2}
        link(pr) == LET c1 == CHOOSE c \in pr : TRUE
                        c2 == CHOOSE c \in pr : c # c1
                    IN average_linkage(geometry, texts, c1, c2)
        least(pr) == \A other \in pairs :
                        link(pr).num * link(other).den <= link(other).num * link(pr).den
    IN IF pairs = {} THEN clusters
       ELSE LET best == CHOOSE pr \in pairs : least(pr)
            IN IF link(best).num < threshold * link(best).den
               THEN agglomerate(geometry, texts,
                                (clusters \ best) \cup {UNION best}, threshold)
               ELSE clusters

\* AgglomerativeStrategy.fit: cluster id -> row indices, in the order of the
\* first row of each cluster
agglomerative_fit(geometry, texts, threshold) ==
    IF Len(texts) < 2 THEN <<[i \in DOMAIN texts |-> i]>>
    ELSE LET clusters == agglomerate(geometry, texts,
                                     {{i} : i \in DOMAIN texts}, threshold)
             rows == [i \in DOMAIN texts |-> i]
             firsts == SelectSeq(rows, LAMBDA i : \E c \in clusters :
                                    i \in c /\ \A j \in c : i <= j)
         IN [k \in DOMAIN firsts |->
                SelectSeq(rows, LAMBDA i : \E c \in clusters :
                             firsts[k] \in c /\ i \in c)]

\* _cluster_groups
cluster_groups(groups, geometry) ==
    IF Len(groups) <= 1 THEN groups
    ELSE LET representative_texts == [g \in DOMAIN groups |-> groups[g][1].embed_text]
             cluster_map == agglomerative_fit(geometry, representative_texts,
                                              entity_resolution_similarity_threshold)
         IN [c \in DOMAIN cluster_map |->
                Flatten([k \in DOMAIN cluster_map[c] |-> groups[cluster_map[c][k]]])]

\* _needs_arbitration
needs_arbitration(relations, mentions) ==
    Cardinality({<<entity_of(relations, mentions[i]).label,
                   entity_of(relations, mentions[i]).name>> : i \in DOMAIN mentions}) > 1

\* max(mentions, key=confidence): the first mention of the largest confidence
first_max_confidence(relations, mentions) ==
    LET conf(i) == entity_of(relations, mentions[i]).confidence
        i0 == CHOOSE i \in DOMAIN mentions :
                 /\ \A j \in DOMAIN mentions : conf(j) <= conf(i)
                 /\ \A j \in DOMAIN mentions : conf(j) = conf(i) => i <= j
    IN mentions[i0]

\* _pick_canonical
pick_canonical(relations, mentions) ==
    LET known == SelectSeq(mentions, LAMBDA m : m.is_known)
        best == IF known # <<>> THEN known[1]
                ELSE first_max_confidence(relations, mentions)
        e == entity_of(relations, best)
    IN [name |-> e.name, label |-> e.label, definition |-> e.definition,
        from_graph |-> best.is_known]

\* MergeDecision
MergeDecision(should_merge, canonical_name, canonical_label, canonical_definition) ==
    [raised |-> FALSE, should_merge |-> should_merge,
     canonical_name |-> canonical_name, canonical_label |-> canonical_label,
     canonical_definition |-> canonical_definition]

\* _arbitrate_cluster: what the structured call answers on the mentions block
\* of a cluster, under a model that merges on the first or on the last line
\* of the block, that never merges, or whose call raises
arbitrate_cluster(llm, relations, mentions) ==
    LET first == entity_of(relations, mentions[1])
        last == entity_of(relations, mentions[Len(mentions)])
    IN CASE llm = "raise" -> [MergeDecision(FALSE, "", "", "") EXCEPT !.raised = TRUE]
         [] llm = "no_merge" -> MergeDecision(FALSE, first.name, first.label,
                                              first.definition)
         [] llm = "first" -> MergeDecision(TRUE, first.name, first.label,
                                           first.definition)
         [] OTHER -> MergeDecision(TRUE, last.name, last.label, last.definition)

\* m.entity = entity for a mention of a relation
set_entity(relations, m, entity) ==
    [relations EXCEPT ![m.relation_index].roles =
        CASE m.role = "agent" -> [@ EXCEPT !.agents[m.pos] = entity]
          [] m.role = "theme" -> [@ EXCEPT !.themes[m.pos] = entity]
          [] OTHER -> [@ EXCEPT !.context[m.pos] = entity]]

\* The loop of _apply_merge from mention k on. aliases is the list built so
\* far; writes lists the mentions whose entity was assigned, in order.
RECURSIVE apply_merge_from(_, _, _, _, _, _)
apply_merge_from(relations, mentions, canonical, aliases, writes, k) ==
    IF k > Len(mentions)
    THEN [relations |-> relations, aliases |-> Range(aliases), writes |-> writes]
    ELSE LET m == mentions[k]
             e == entity_of(relations, m)
             aliases1 == IF e.name # canonical.name THEN Append(aliases, e.name)
                         ELSE aliases
         IN IF m.is_known
            THEN apply_merge_from(relations, mentions, canonical, aliases1, writes, k + 1)
            ELSE LET e1 == [e EXCEPT !.name = canonical.name,
                                     !.label = canonical.label,
                                     !.definition = canonical.definition,
                                     !.aliases = IF aliases1 # <<>>
                                                 THEN Range(aliases1) ELSE @]
                 IN apply_merge_from(set_entity(relations, m, e1), mentions,
                                     canonical, aliases1, Append(writes, m), k + 1)

\* _apply_merge without `if m.is_known: continue`: the phantoms are assigned too
apply_merge_rewrites_known(relations, mentions, canonical) ==
    LET merged == apply_merge_from(relations, mentions, canonical, <<>>, <<>>, 1)
    IN [merged EXCEPT !.writes = mentions]

\* _apply_merge; canonical is the record of canonical_name, canonical_label
\* and canonical_definition
apply_merge(relations, mentions, canonical) ==
    apply_merge_from(relations, mentions, canonical, <<>>, <<>>, 1)

\* ResolutionEntry
ResolutionEntry(canonical_name, canonical_label, aliases, mention_count, method, from_graph) ==
    [canonical_name |-> canonical_name, canonical_label |-> canonical_label,
     aliases |-> aliases, mention_count |-> mention_count, method |-> method,
     canonical_source |-> IF from_graph THEN "graph" ELSE "batch"]

\* (label, name) of the mentions that are not phantoms
unique_keys(relations, mentions) ==
    {<<entity_of(relations, mentions[i]).label, entity_of(relations, mentions[i]).name>> :
        i \in {j \in DOMAIN mentions : ~mentions[j].is_known}}

\* One turn of the loop `for cluster in candidate_clusters`; st holds the
\* relations as mutated so far, the report entries and the writes
resolve_cluster(st, cluster, llm_arbitration, llm) ==
    IF ~needs_arbitration(st.relations, cluster)
    THEN LET c == pick_canonical(st.relations, cluster)
         IN [st EXCEPT !.entries = Append(@, ResolutionEntry(
                c.name, c.label, {}, Len(cluster), "exact", c.from_graph))]
    ELSE IF llm_arbitration
    THEN LET decision == arbitrate_cluster(llm, st.relations, cluster)
         IN IF decision.raised THEN [st EXCEPT !.status = "raised"]
            ELSE IF decision.should_merge
            THEN LET canonical == [name |-> decision.canonical_name,
                                   label |-> decision.canonical_label,
                                   definition |-> decision.canonical_definition]
                     merged == apply_merge(st.relations, cluster, canonical)
                     from_graph ==
                         \E i \in DOMAIN cluster :
                             /\ cluster[i].is_known
                             /\ entity_of(merged.relations, cluster[i]).name
                                    = decision.canonical_name
                 IN [st EXCEPT !.relations = merged.relations,
                               !.writes = @ \o merged.writes,
                               !.entries = Append(@, ResolutionEntry(
                                   decision.canonical_name, decision.canonical_label,
                                   merged.aliases, Len(cluster), "llm", from_graph))]
            ELSE LET sub_groups == group_by_norm_key(cluster)
                 IN [st EXCEPT !.entries = @ \o
                        [g \in DOMAIN sub_groups |->
                            LET c == pick_canonical(st.relations, sub_groups[g])
                            IN ResolutionEntry(c.name, c.label, {}, Len(sub_groups[g]),
                                               "llm_rejected", c.from_graph)]]
    ELSE LET c == pick_canonical(st.relations, cluster)
             merged == apply_merge(st.relations, cluster, c)
         IN [st EXCEPT !.relations = merged.relations,
                       !.writes = @ \o merged.writes,
                       !.entries = Append(@, ResolutionEntry(
                           c.name, c.label, merged.aliases, Len(cluster),
                           "embedding", c.from_graph))]

\* The loop `for cluster in candidate_clusters`: an exception ends it
RECURSIVE resolve_clusters(_, _, _, _)
resolve_clusters(st, clusters, llm_arbitration, llm) ==
    IF clusters = <<>> \/ st.status = "raised" THEN st
    ELSE resolve_clusters(resolve_cluster(st, Head(clusters), llm_arbitration, llm),
                          Tail(clusters), llm_arbitration, llm)

\* ResolutionReport
ResolutionReport(total_mentions, unique_before, unique_after, merges) ==
    [total_mentions |-> total_mentions, unique_before |-> unique_before,
     unique_after |-> unique_after, merges |-> merges]

\* resolve_entities. known_entities is a list of dicts (empty for None);
\* geometry and llm are the embedding model and the arbitration model. The
\* result carries the relations as the in-place writes left them, the report
\* (none when the call raised), the clusters and the writes.
resolve_entities(relations, known_entities, llm_arbitration, geometry, llm) ==
    IF relations = <<>>
    THEN [status |-> "ok", relations |-> relations,
          report |-> ResolutionReport(0, 0, 0, <<>>), clusters |-> <<>>,
          writes |-> <<>>]
    ELSE LET mentions == build_mentions(relations)
                         \o build_known_mentions(known_entities)
             unique_before == Cardinality(unique_keys(relations, mentions))
             norm_groups == group_by_norm_key(mentions)
             candidate_clusters == cluster_groups(norm_groups, geometry)
             st == resolve_clusters([status |-> "ok", relations |-> relations,
                                     entries |-> <<>>, writes |-> <<>>],
                                    candidate_clusters, llm_arbitration, llm)
             unique_after == Cardinality(unique_keys(st.relations, mentions))
         IN [status |-> st.status, relations |-> st.relations,
             report |-> IF st.status = "raised" THEN ResolutionReport(0, 0, 0, <<>>)
                        ELSE ResolutionReport(Len(mentions), unique_before, unique_after,
                                 SelectSeq(st.entries, LAMBDA e : e.aliases # {})),
             clusters |-> candidate_clusters, writes |-> st.writes]

\* The loop `for doc in documents` of Pipeline._build_and_export
export_graph(relations, documents, doc_chunks, mentions) ==
    LET per_doc(doc) ==
            LET doc_rels == SelectSeq(relations, LAMBDA r : r.doc = doc.id)
                chunks == DictGet(doc_chunks, doc.id, <<>>)
                doc_chunk_ids == {chunks[i].chunk_id : i \in DOMAIN chunks}
                doc_mentions ==
                    SelectSeq(mentions, LAMBDA m :
                        m.chunk_id \in doc_chunk_ids \/ m.chunk_id = <<>>)
            IN build_graph_elements(doc_rels, doc.id, chunks, doc_mentions)
        parts == MapSeq(documents, per_doc)
    IN [nodes |-> Flatten([i \in DOMAIN parts |-> parts[i].nodes]),
        edges |-> Flatten([i \in DOMAIN parts |-> parts[i].edges])]

\* PipelineResult; status tells a returned result from an exception that
\* left Pipeline.process ("raised") and from no call yet ("none")
PipelineResult(status, relations, ontology_ref, nodes, edges, violations_count, rejected_relations_count, documents_processed) ==
    [status |-> status, relations |-> relations, ontology |-> ontology_ref,
     nodes |-> nodes, edges |-> edges, violations_count |-> violations_count,
     rejected_relations_count |-> rejected_relations_count,
     documents_processed |-> documents_processed]

NoResult == PipelineResult("none", <<>>, 0, <<>>, <<>>, 0, 0, 0)

\* Pipeline._build_and_export
build_and_export(relations, documents, doc_chunks, mentions, violations_count, rejected_relations_count, ontology_ref) ==
    LET g == export_graph(relations, documents, doc_chunks, mentions)
    IN PipelineResult("ok", relations, ontology_ref, g.nodes, g.edges,
                      violations_count, rejected_relations_count, Len(documents))

\* ------------------------------------------------------------------------
\* The environment: documents and the language model's answers
\* ------------------------------------------------------------------------
Document(id, text) == [id |-> id, text |-> text]

D1 == Document("d1", <<"s1", "s2">>)
D2 == Document("d2", <<"s1">>)

\* The batches handed to Pipeline.process
Batches == {<<>>, <<D1>>, <<D1, D2>>}

ACQUIRE_FIRM == RelationType("acquire", "firm")
BUY_FIRM == RelationType("buy", "firm")

ExtractedA == [rt |-> ACQUIRE_FIRM, desc |-> "a", quotes |-> <<<<"s1">>>>,
               confidence |-> 90]
\* a quote that spans the two chunks of d1, with a low confidence
ExtractedB == [rt |-> BUY_FIRM, desc |-> "b", quotes |-> <<<<"s1", "s2">>>>,
               confidence |-> 20]
ExtractedC == [rt |-> ACQUIRE_FIRM, desc |-> "c", quotes |-> <<<<"s1">>>>,
               confidence |-> 20]

Raised == [raised |-> TRUE, relations |-> <<>>, roles |-> Roles(<<>>, <<>>, <<>>, <<>>)]
Extracted(relations) ==
    [raised |-> FALSE, relations |-> relations, roles |-> Roles(<<>>, <<>>, <<>>, <<>>)]
Filled(roles) == [raised |-> FALSE, relations |-> <<>>, roles |-> roles]

\* Outcomes of the structured extraction call on a document
ExtractionResponses(doc) ==
    IF doc.id = "d1"
    THEN {Raised, Extracted(<<>>), Extracted(<<ExtractedA, ExtractedB>>)}
    ELSE {Raised, Extracted(<<ExtractedC>>)}

Acme == Entity("Company", "acme", "a firm", 90)
AcmeInc == Entity("company", "Acme Inc", "an incorporated firm", 80)
Bolt == Entity("Company", "Bolt", "a firm", 90)
Bob == Entity("person", "Bob", "a human", 90)

\* Outcomes of the structured role call on a raw relation
RoleResponses(raw) ==
    CASE raw.desc = "a" -> {Raised, Filled(Roles(<<Acme>>, <<Bolt>>, <<>>, <<>>))}
      [] raw.desc = "b" -> {Filled(Roles(<<AcmeInc>>, <<Bob>>, <<>>, <<>>)),
                            Filled(Roles(<<AcmeInc>>, <<Bolt>>, <<>>, <<>>))}
      [] OTHER -> {Filled(Roles(<<AcmeInc>>, <<Bolt>>, <<Acme>>, <<>>))}

\* Candidate sets the embedding model may place near an existing type
SimilarSets ==
    {{}} \cup {{CandidateType("relation", l)} : l \in RelLabels}

\* The candidates a batch of the model can propose
AllCandidates ==
    {CandidateType("relation", l) : l \in RelLabels}
    \cup {CandidateType("entity", l) : l \in EntLabels \cup {"Device"}}

\* The largest cosine similarities (percent) when the candidates of `similar`
\* lie near an existing type and the others far from all
Similarity(similar) == [c \in AllCandidates |-> IF c \in similar THEN 95 ELSE 50]

\* Best-match similarities (percent) the embedding model may produce for the
\* relations of a batch
DriftSimilarities == {60, 90}

\* The entity names of the model
Names == {"Acme", "Acme Inc", "Acme Inc.", "Acme Corp", "Bolt", "Bob"}

\* An embedding model under which the pairs of names of `near` lie at cosine
\* distance 0.10, those of `marginal` at 0.14 and the others at 0.40
Geometry(near, marginal) ==
    [pr \in {s \in SUBSET Names : Cardinality(s) = 2} |->
        IF pr \in near THEN 10 ELSE IF pr \in marginal THEN 14 ELSE 40]

\* Embedding models of the pipeline: all names apart, or Acme near Acme Inc
PipelineGeometries == {Geometry({}, {}), Geometry({{"Acme", "Acme Inc"}}, {})}

\* Arbitration models: see arbitrate_cluster
ArbitrationModels == {"first", "last", "no_merge", "raise"}

\* The label the Arbiter names as a merge target when no type exists yet
LegacyLabel == "LEGACY_TYPE"

\* ------------------------------------------------------------------------
\* State of a Pipeline object and of the batch it is processing
\* ------------------------------------------------------------------------
VARIABLES
    heap,             \* the live OntologySchema objects, by address
    ontology,         \* Pipeline._ontology: an address of heap, 0 for None
    batches,          \* calls of Pipeline.process so far
    pc,               \* the stage the current call is at
    path,             \* "fast" or "full": the method that is running
    restarted,        \* the fast path handed the batch to the full path
    documents,        \* the batch
    cursor,           \* documents extracted so far in _extract_raw_batch
    all_raw,
    role_responses,   \* the outcome of the structured role call per raw relation
    all_relations,
    candidates,       \* the candidates presented to the Arbiter
    decisions,        \* ArbiterSession.decisions
    surface_snapshot,
    doc_chunks,
    mentions,
    valid_relations,
    counts,           \* (violations_count, rejected_count) of _validate
    result,           \* what the last call returned or raised
    validation,       \* a call of Pipeline._validate on its own
    arbitration,      \* a call of apply_arbiter_decisions on its own
    call              \* a call of another function on its own: arguments, result

vars == <<heap, ontology, batches, pc, path, restarted, documents, cursor,
          all_raw, role_responses, all_relations, candidates, decisions, surface_snapshot,
          doc_chunks, mentions, valid_relations, counts, result,
          validation, arbitration, call>>

batch_vars == <<all_raw, role_responses, all_relations, candidates, decisions, surface_snapshot,
                doc_chunks, mentions, valid_relations, counts>>

pure_vars == <<validation, arbitration, call>>

\* The variables of the Pipeline object and of its batch
pipeline_vars == <<heap, ontology, batches, pc, path, restarted, documents, cursor,
                   batch_vars, result>>

NoCounts == [violations_count |-> 0, rejected_count |-> 0]
NoValidation == [phase |-> "none", relations |-> <<>>,
                 out |-> validate(<<>>, {}, <<>>, <<>>)]
NoArbitration == [phase |-> "none", has |-> FALSE,
                  cur |-> OntologySchema(0, NoParent, <<>>, <<>>, 0),
                  decisions |-> <<>>,
                  out |-> OntologySchema(0, NoParent, <<>>, <<>>, 0)]

NoCall == [fn |-> "none", phase |-> "none"]

\* The heap with no object on it
NoObjects == [a \in {} |-> OntologySchema(0, NoParent, <<>>, <<>>, 0)]

\* The address a new object gets
NewAddress(objects) == IF DOMAIN objects = {} THEN 1 ELSE Max(DOMAIN objects) + 1

\* A new object on the heap
Allocate(objects, schema) ==
    [a \in DOMAIN objects \cup {NewAddress(objects)} |->
        IF a \in DOMAIN objects THEN objects[a] ELSE schema]

\* The objects still referenced when a call of process begins: the schemas
\* replaced earlier are garbage
Reachable(objects, ref) == [a \in DOMAIN objects \cap {ref} |-> objects[a]]

HasOntology == ontology # 0
\* The schema self._ontology refers to (any schema when it is None: unused)
Current == IF HasOntology THEN heap[ontology]
           ELSE OntologySchema(0, NoParent, <<>>, <<>>, 0)

\* A Pipeline object after construction
NewPipeline ==
    /\ heap = NoObjects
    /\ ontology = 0
    /\ batches = 0
    /\ pc = "idle"
    /\ path = "none"
    /\ restarted = FALSE
    /\ documents = <<>>
    /\ cursor = 0
    /\ all_raw = <<>>
    /\ role_responses = <<>>
    /\ all_relations = <<>>
    /\ candidates = <<>>
    /\ decisions = <<>>
    /\ surface_snapshot = <<>>
    /\ doc_chunks = <<>>
    /\ mentions = <<>>
    /\ valid_relations = <<>>
    /\ counts = NoCounts
    /\ result = NoResult

Init ==
    /\ NewPipeline
    /\ validation = NoValidation
    /\ arbitration = NoArbitration
    /\ call = NoCall

\* Pipeline._process_async: the method the batch is routed to
process_route(has, cur, threshold) ==
    IF ~has THEN "full"
    ELSE IF is_stale(cur, threshold) THEN "full"
    ELSE "fast"

\* Pipeline.process(documents) is called
Process ==
    /\ pc \in {"idle", "done"}
    /\ batches < MaxBatches
    /\ \E docs \in Batches :
        /\ documents' = docs
        /\ path' = process_route(HasOntology, Current, ontology_staleness_threshold)
    /\ batches' = batches + 1
    /\ pc' = "extract"
    /\ restarted' = FALSE
    /\ cursor' = 0
    /\ all_raw' = <<>>
    /\ role_responses' = <<>>
    /\ all_relations' = <<>>
    /\ candidates' = <<>>
    /\ decisions' = <<>>
    /\ surface_snapshot' = <<>>
    /\ doc_chunks' = <<>>
    /\ mentions' = <<>>
    /\ valid_relations' = <<>>
    /\ counts' = NoCounts
    /\ result' = NoResult
    /\ heap' = Reachable(heap, ontology)
    /\ UNCHANGED <<ontology, pure_vars>>

\* The early returns of _full_pipeline: an empty result, the counter untouched
EmptyResult == PipelineResult("ok", <<>>, ontology, <<>>, <<>>, 0, 0, Len(documents))

\* One iteration of the loop of _extract_raw_batch: the structured call on
\* the next document returns relations or raises out of Pipeline.process
ExtractDoc ==
    /\ pc = "extract"
    /\ cursor < Len(documents)
    /\ \E response \in ExtractionResponses(documents[cursor + 1]) :
        IF response.raised
        THEN /\ pc' = "done"
             /\ result' = PipelineResult("raised", <<>>, ontology, <<>>, <<>>, 0, 0, 0)
             /\ UNCHANGED <<cursor, all_raw>>
        ELSE /\ all_raw' = all_raw \o
                    extract_raw_relations(documents[cursor + 1], response, path)
             /\ cursor' = cursor + 1
             /\ UNCHANGED <<pc, result>>
    /\ UNCHANGED <<heap, ontology, batches, path, restarted, documents,
                   all_relations, candidates, decisions, surface_snapshot,
                   doc_chunks, mentions, valid_relations, counts, role_responses, pure_vars>>

\* _extract_raw_batch returns; _full_pipeline returns early when nothing was
\* extracted
ExtractReturn ==
    /\ pc = "extract"
    /\ cursor = Len(documents)
    /\ IF path = "full" /\ all_raw = <<>>
       THEN pc' = "done" /\ result' = EmptyResult
       ELSE pc' = "fill" /\ UNCHANGED result
    /\ UNCHANGED <<heap, ontology, batches, path, restarted, documents, cursor,
                   batch_vars, pure_vars>>

\* _fill_roles_batch; _full_pipeline returns early when no relation is left
FillRolesBatch ==
    /\ pc = "fill"
    /\ \E responses \in [DOMAIN all_raw -> UNION {RoleResponses(all_raw[i]) :
                                                   i \in DOMAIN all_raw}] :
        /\ \A i \in DOMAIN all_raw : responses[i] \in RoleResponses(all_raw[i])
        /\ role_responses' = responses
        /\ all_relations' = fill_roles_batch(all_raw, responses,
                                             generic_entity_blocklist)
    /\ IF path = "full" /\ all_relations' = <<>>
       THEN pc' = "done" /\ result' = EmptyResult
       ELSE /\ pc' = IF path = "fast" THEN "drift" ELSE "qc"
            /\ UNCHANGED result
    /\ UNCHANGED <<heap, ontology, batches, path, restarted, documents, cursor,
                   all_raw, candidates, decisions, surface_snapshot, doc_chunks,
                   mentions, valid_relations, counts, pure_vars>>

\* The drift check of _fast_path never restarting the batch
DriftCheck_never_restarts ==
    /\ pc = "drift"
    /\ pc' = "qc"
    /\ UNCHANGED <<heap, ontology, batches, path, restarted, documents, cursor,
                   batch_vars, result, pure_vars>>

\* The drift check of _fast_path: on drift, return await _full_pipeline(documents)
DriftCheck ==
    /\ pc = "drift"
    /\ \E sim \in DriftSimilarities :
        IF should_negotiate_by_drift(HasOntology, Current, all_relations,
                                     [i \in DOMAIN all_relations |-> sim])
        THEN /\ pc' = "extract"
             /\ path' = "full"
             /\ restarted' = TRUE
             /\ cursor' = 0
             /\ all_raw' = <<>>
             /\ all_relations' = <<>>
        ELSE /\ pc' = "qc"
             /\ UNCHANGED <<path, restarted, cursor, all_raw, all_relations>>
    /\ UNCHANGED <<heap, ontology, batches, documents, candidates, decisions,
                   surface_snapshot, doc_chunks, mentions, valid_relations,
                   counts, result, role_responses, pure_vars>>

\* _run_qc: advisory flags only, nothing the later stages read
RunQC ==
    /\ pc = "qc"
    /\ qc_enabled
    /\ pc' = "candidates"
    /\ UNCHANGED <<heap, ontology, batches, path, restarted, documents, cursor,
                   batch_vars, result, pure_vars>>

\* _collect_candidates, and create_arbiter when a candidate is left
CollectCandidates ==
    /\ pc = "candidates"
    /\ \E similar \in SimilarSets :
        candidates' = collect_candidates(all_relations, HasOntology, Current,
                                         Similarity(similar))
    /\ decisions' = <<>>
    /\ pc' = IF candidates' # <<>> THEN "arbiter" ELSE "resolve"
    /\ UNCHANGED <<heap, ontology, batches, path, restarted, documents, cursor,
                   all_raw, all_relations, surface_snapshot, doc_chunks, mentions,
                   valid_relations, counts, result, role_responses, pure_vars>>

\* The labels a merge may name: the existing types of the kind, or a label of
\* no type when there is none yet
MergeTargets(kind) ==
    LET existing == IF ~HasOntology THEN {}
                    ELSE IF kind = "relation" THEN Labels(Current.relation_types)
                    ELSE Labels(Current.entity_types)
    IN IF existing = {} THEN {LegacyLabel} ELSE existing

\* The agent calls the tool accept_type
AcceptType ==
    /\ pc = "arbiter"
    /\ Len(decisions) < MaxToolCalls
    /\ \E c \in Range(candidates) :
        decisions' = Append(decisions, ArbiterDecision("accept", c.kind, c.label, ""))
    /\ UNCHANGED <<heap, ontology, batches, pc, path, restarted, documents, cursor,
                   all_raw, all_relations, candidates, surface_snapshot, doc_chunks,
                   mentions, valid_relations, counts, result, role_responses, pure_vars>>

\* The agent calls the tool merge_with_existing
MergeWithExisting ==
    /\ pc = "arbiter"
    /\ Len(decisions) < MaxToolCalls
    /\ \E c \in Range(candidates) : \E existing_label \in MergeTargets(c.kind) :
        decisions' = Append(decisions,
                            ArbiterDecision("merge", c.kind, c.label, existing_label))
    /\ UNCHANGED <<heap, ontology, batches, pc, path, restarted, documents, cursor,
                   all_raw, all_relations, candidates, surface_snapshot, doc_chunks,
                   mentions, valid_relations, counts, result, role_responses, pure_vars>>

\* The agent calls the tool reject_type
RejectType ==
    /\ pc = "arbiter"
    /\ Len(decisions) < MaxToolCalls
    /\ \E c \in Range(candidates) :
        decisions' = Append(decisions, ArbiterDecision("reject", c.kind, c.label, ""))
    /\ UNCHANGED <<heap, ontology, batches, pc, path, restarted, documents, cursor,
                   all_raw, all_relations, candidates, surface_snapshot, doc_chunks,
                   mentions, valid_relations, counts, result, role_responses, pure_vars>>

\* self._ontology = <schema> overwriting the object self._ontology refers to
store_ontology_in_place(objects, ref, schema) ==
    IF ref = 0
    THEN [heap |-> Allocate(objects, schema), ontology |-> NewAddress(objects)]
    ELSE [heap |-> [objects EXCEPT ![ref] = schema], ontology |-> ref]

\* self._ontology = <schema>: the schema is a new object and the attribute is
\* rebound to it
store_ontology(objects, ref, schema) ==
    [heap |-> Allocate(objects, schema), ontology |-> NewAddress(objects)]

\* _run_arbiter after agent.run returned: the decisions are applied; the
\* session and the candidate list are not used again
ArbiterApply ==
    /\ pc = "arbiter"
    /\ LET stored == store_ontology(heap, ontology,
                        apply_arbiter_decisions(decisions, HasOntology, Current))
       IN heap' = stored.heap /\ ontology' = stored.ontology
    /\ pc' = "resolve"
    /\ candidates' = <<>>
    /\ decisions' = <<>>
    /\ UNCHANGED <<batches, path, restarted, documents, cursor, all_raw,
                   all_relations, surface_snapshot, doc_chunks, mentions,
                   valid_relations, counts, result, role_responses, pure_vars>>

\* _snapshot_surface_forms, then _resolve_entities (no context retriever:
\* known_entities is None); an exception of the arbitration call leaves
\* Pipeline.process
ResolveEntities ==
    /\ pc = "resolve"
    /\ surface_snapshot' = snapshot_surface_forms(all_relations)
    /\ \E geometry \in PipelineGeometries, llm \in ArbitrationModels :
        LET resolved == IF entity_resolution_enabled
                        THEN resolve_entities(all_relations, <<>>,
                                              entity_resolution_llm_arbitration,
                                              geometry, llm)
                        ELSE [status |-> "ok", relations |-> all_relations]
        IN /\ all_relations' = resolved.relations
           /\ IF resolved.status = "raised"
              THEN /\ pc' = "done"
                   /\ result' = PipelineResult("raised", <<>>, ontology, <<>>, <<>>,
                                               0, 0, 0)
              ELSE /\ pc' = "chunk"
                   /\ UNCHANGED result
    /\ UNCHANGED <<heap, ontology, batches, path, restarted, documents, cursor,
                   all_raw, candidates, decisions, doc_chunks, mentions,
                   valid_relations, counts, role_responses, pure_vars>>

\* _chunk_documents, _assign_chunk_ids, _collect_mentions
ChunkAssign ==
    /\ pc = "chunk"
    /\ doc_chunks' = chunk_documents(documents)
    /\ all_relations' = assign_chunk_ids(all_relations, doc_chunks')
    /\ mentions' = collect_mentions(all_relations', surface_snapshot)
    /\ pc' = "validate"
    /\ UNCHANGED <<heap, ontology, batches, path, restarted, documents, cursor,
                   all_raw, candidates, decisions, surface_snapshot,
                   valid_relations, counts, result, role_responses, pure_vars>>

\* _validate
Validate ==
    /\ pc = "validate"
    /\ LET v == validate(all_relations, generic_entity_blocklist,
                         doc_texts_of(documents), chunk_texts_of(doc_chunks))
       IN /\ valid_relations' = v.valid
          /\ counts' = [violations_count |-> v.violations_count,
                        rejected_count |-> v.rejected_count]
    /\ pc' = "export"
    /\ UNCHANGED <<heap, ontology, batches, path, restarted, documents, cursor,
                   all_raw, all_relations, candidates, decisions, surface_snapshot,
                   doc_chunks, mentions, result, role_responses, pure_vars>>

\* The counter update of _full_pipeline (= len) at the end of both methods
count_documents_assigned(objects, ref, method, n) ==
    IF ref = 0 THEN objects
    ELSE [objects EXCEPT ![ref].documents_since_last_negotiation = n]

\* The counter update that ends _full_pipeline (= len) and _fast_path (+= len)
count_documents(objects, ref, method, n) ==
    IF ref = 0 THEN objects
    ELSE [objects EXCEPT ![ref].documents_since_last_negotiation =
             IF method = "full" THEN n ELSE @ + n]

\* _build_and_export, the counter update and the return of the result
BuildAndExport ==
    /\ pc = "export"
    /\ result' = build_and_export(valid_relations, documents, doc_chunks, mentions,
                                  counts.violations_count, counts.rejected_count,
                                  ontology)
    /\ heap' = count_documents(heap, ontology, path, Len(documents))
    /\ pc' = "done"
    /\ UNCHANGED <<ontology, batches, path, restarted, documents, cursor,
                   batch_vars, pure_vars>>

Next ==
    \/ Process
    \/ ExtractDoc
    \/ ExtractReturn
    \/ FillRolesBatch
    \/ DriftCheck
    \/ RunQC
    \/ CollectCandidates
    \/ AcceptType
    \/ MergeWithExisting
    \/ RejectType
    \/ ArbiterApply
    \/ ResolveEntities
    \/ ChunkAssign
    \/ Validate
    \/ BuildAndExport

Spec == Init /\ [][Next]_vars

\* ------------------------------------------------------------------------
\* Pipeline._validate called on its own, on relation lists that need not come
\* from role filling (a Relation built without its validators may lack roles)
\* ------------------------------------------------------------------------
\* Length of the relation lists handed to _validate
MaxRelations == 3

ValidationDocs == <<D1>>

\* The chunk the quote <<"s1">> of d1 lies in
FirstChunkId == chunk_document(D1.text, D1.id, pipeline_max_tokens,
                               pipeline_overlap_tokens)[1].chunk_id

ValidationRelation(desc, roles, quote, confidence) ==
    with_roles(RawRelation("full", "d1", ACQUIRE_FIRM, desc,
                           IF quote = <<>> THEN <<>>
                           ELSE <<Evidence(quote, FirstChunkId)>>,
                           confidence),
               roles)

ValidationRelations ==
    {ValidationRelation("ok", Roles(<<Acme>>, <<Bolt>>, <<>>, <<>>), <<"s1">>, 90),
     ValidationRelation("no_agent", Roles(<<>>, <<Bolt>>, <<>>, <<>>), <<"s1">>, 90),
     ValidationRelation("no_roles", Roles(<<>>, <<>>, <<>>, <<>>), <<"s1">>, 90),
     ValidationRelation("warned", Roles(<<Acme>>, <<Acme>>, <<>>, <<>>), <<>>, 20),
     ValidationRelation("generic", Roles(<<Acme>>, <<Bob>>, <<>>, <<>>), <<"s1">>, 90),
     ValidationRelation("misquoted", Roles(<<Acme>>, <<Bolt>>, <<>>, <<>>),
                        <<"s1", "s2">>, 90)}

InitValidate ==
    /\ NewPipeline
    /\ arbitration = NoArbitration
    /\ call = NoCall
    /\ \E relations \in SeqsUpTo(ValidationRelations, MaxRelations) :
        validation = [phase |-> "input", relations |-> relations,
                      out |-> NoValidation.out]

\* _validate(relations, doc_texts, chunk_texts) returns
ValidateCall ==
    /\ validation.phase = "input"
    /\ validation' =
          [validation EXCEPT
              !.phase = "done",
              !.out = validate(validation.relations, generic_entity_blocklist,
                               doc_texts_of(ValidationDocs),
                               chunk_texts_of(chunk_documents(ValidationDocs)))]
    /\ UNCHANGED <<heap, ontology, batches, pc, path, restarted, documents, cursor,
                   batch_vars, result, arbitration, call>>

SpecValidate == InitValidate /\ [][ValidateCall]_vars

\* ------------------------------------------------------------------------
\* apply_arbiter_decisions called on its own
\* ------------------------------------------------------------------------
\* Ontologies handed to apply_arbiter_decisions (None apart)
ArbiterOntologies ==
    {OntologySchema(1, NoParent, <<OntologyType("Company", TRUE)>>,
                    <<OntologyType("ACQUIRE_FIRM", FALSE)>>, 1),
     OntologySchema(2, 1, <<>>, <<>>, 0)}

ArbiterDecisions ==
    {ArbiterDecision("accept", "relation", l, "") : l \in RelLabels}
    \cup {ArbiterDecision("reject", "relation", l, "") : l \in RelLabels}
    \cup {ArbiterDecision("accept", "entity", "Company", ""),
          ArbiterDecision("reject", "entity", "Person", ""),
          ArbiterDecision("merge", "relation", "BUY_FIRM", "ACQUIRE_FIRM"),
          ArbiterDecision("merge", "entity", "Person", "Company")}

InitArbiter ==
    /\ NewPipeline
    /\ validation = NoValidation
    /\ call = NoCall
    /\ \E decs \in SeqsUpTo(ArbiterDecisions, MaxToolCalls) :
        \/ \E cur \in ArbiterOntologies :
              arbitration = [phase |-> "input", has |-> TRUE, cur |-> cur,
                             decisions |-> decs, out |-> NoArbitration.out]
        \/ arbitration = [phase |-> "input", has |-> FALSE,
                          cur |-> NoArbitration.cur,
                          decisions |-> decs, out |-> NoArbitration.out]

\* apply_arbiter_decisions(decisions, current_ontology) returns
ApplyCall ==
    /\ arbitration.phase = "input"
    /\ arbitration' =
          [arbitration EXCEPT
              !.phase = "done",
              !.out = apply_arbiter_decisions(arbitration.decisions,
                                              arbitration.has, arbitration.cur)]
    /\ UNCHANGED <<heap, ontology, batches, pc, path, restarted, documents, cursor,
                   batch_vars, result, validation, call>>

SpecArbiter == InitArbiter /\ [][ApplyCall]_vars

\* ------------------------------------------------------------------------
\* Pipeline._collect_candidates called on its own
\* ------------------------------------------------------------------------
\* Length of the relation lists handed to _collect_candidates
MaxCandidateRelations == 2

CandidateRelations ==
    {with_roles(RawRelation("full", "d1", ACQUIRE_FIRM, "a", <<>>, 90),
                Roles(<<Acme>>, <<Bolt>>, <<>>, <<>>)),
     with_roles(RawRelation("full", "d1", BUY_FIRM, "b", <<>>, 90),
                Roles(<<AcmeInc>>, <<Bolt>>, <<>>, <<"Device">>))}

\* Ontologies of the pipeline when candidates are collected (None apart): one
\* without types, one whose seed label COMPANY differs from the extracted
\* label Company by its case only, one with a single entity type
CandidateOntologies ==
    {OntologySchema(1, NoParent, <<>>, <<>>, 0),
     OntologySchema(1, NoParent, <<OntologyType("COMPANY", TRUE)>>,
                    <<OntologyType("ACQUIRE_FIRM", FALSE)>>, 0),
     OntologySchema(2, 1, <<OntologyType("Device", FALSE)>>, <<>>, 1)}

\* Largest similarities (percent) of the candidates, on both sides of
\* auto_merge_threshold
SimilarityMaps == [AllCandidates -> {auto_merge_threshold - 1, auto_merge_threshold}]

InitCandidates ==
    /\ NewPipeline
    /\ validation = NoValidation
    /\ arbitration = NoArbitration
    /\ \E relations \in SeqsUpTo(CandidateRelations, MaxCandidateRelations),
          sims \in SimilarityMaps :
        \/ \E cur \in CandidateOntologies :
              call = [fn |-> "collect_candidates", phase |-> "input", has |-> TRUE,
                      cur |-> cur, relations |-> relations, sims |-> sims,
                      out |-> <<>>]
        \/ call = [fn |-> "collect_candidates", phase |-> "input", has |-> FALSE,
                   cur |-> NoArbitration.cur, relations |-> relations,
                   sims |-> sims, out |-> <<>>]

\* _collect_candidates(relations) returns
CollectCall ==
    /\ call.fn = "collect_candidates"
    /\ call.phase = "input"
    /\ call' = [call EXCEPT
                   !.phase = "done",
                   !.out = collect_candidates(call.relations, call.has, call.cur,
                                              call.sims)]
    /\ UNCHANGED <<pipeline_vars, validation, arbitration>>

SpecCandidates == InitCandidates /\ [][CollectCall]_vars

\* ------------------------------------------------------------------------
\* Pipeline._should_negotiate_by_drift called on its own
\* ------------------------------------------------------------------------
\* Sizes of the batches of relations, on both sides of min_relations
DriftBatchSizes == {0, 1, min_relations - 1, min_relations, min_relations + 1}

\* Best-match similarities, on both sides of 1 - drift_threshold
DriftMaxSims == {100 - drift_threshold - 1, 100 - drift_threshold,
                 100 - drift_threshold + 1}

InitDrift ==
    /\ NewPipeline
    /\ validation = NoValidation
    /\ arbitration = NoArbitration
    /\ \E n \in DriftBatchSizes, first \in DriftMaxSims, others \in DriftMaxSims :
        LET relations == [i \in 1..n |-> CHOOSE r \in CandidateRelations : r.desc = "a"]
            max_sims == [i \in 1..n |-> IF i = 1 THEN first ELSE others]
        IN \/ \E cur \in CandidateOntologies :
                 call = [fn |-> "should_negotiate_by_drift", phase |-> "input",
                         has |-> TRUE, cur |-> cur, relations |-> relations,
                         max_sims |-> max_sims, out |-> FALSE]
           \/ call = [fn |-> "should_negotiate_by_drift", phase |-> "input",
                      has |-> FALSE, cur |-> NoArbitration.cur,
                      relations |-> relations, max_sims |-> max_sims, out |-> FALSE]

\* _should_negotiate_by_drift(extracted_relations) returns
DriftCall ==
    /\ call.fn = "should_negotiate_by_drift"
    /\ call.phase = "input"
    /\ call' = [call EXCEPT
                   !.phase = "done",
                   !.out = should_negotiate_by_drift(call.has, call.cur,
                                                     call.relations, call.max_sims)]
    /\ UNCHANGED <<pipeline_vars, validation, arbitration>>

SpecDrift == InitDrift /\ [][DriftCall]_vars

\* ------------------------------------------------------------------------
\* resolve_entities called on its own, and called again on what it returned
\* ------------------------------------------------------------------------
\* Length of the relation lists handed to resolve_entities
MaxResolveRelations == 2

AcmeIncDot == Entity("Company", "Acme Inc.", "an incorporated firm", 70)
AcmeCorp == Entity("Company", "Acme Corp", "a corporation", 70)

ResolveRelation(desc, roles) ==
    with_roles(RawRelation("full", "d1", ACQUIRE_FIRM, desc, <<>>, 90), roles)

ResolveRelations ==
    {ResolveRelation("a", Roles(<<Acme>>, <<Bolt>>, <<>>, <<>>)),
     ResolveRelation("b", Roles(<<AcmeInc>>, <<Bolt>>, <<>>, <<>>)),
     ResolveRelation("c", Roles(<<AcmeIncDot>>, <<AcmeCorp>>, <<>>, <<>>)),
     ResolveRelation("d", Roles(<<AcmeCorp>>, <<Acme>>, <<AcmeInc>>, <<>>))}

\* known_entities: None, or entities of the graph as find_similar_entities
\* returns them
KnownEntityLists ==
    {<<>>,
     <<[name |-> "Acme Corp", label |-> "Company", definition |-> ""]>>,
     <<[name |-> "acme inc", label |-> "company", definition |-> "a known firm"]>>}

\* Embedding models: all names apart; Acme near Acme Inc; also Acme Corp
\* within the threshold of Acme but far from Acme Inc; the Acme names all near
ResolveGeometries ==
    {Geometry({}, {}),
     Geometry({{"Acme", "Acme Inc"}}, {}),
     Geometry({{"Acme", "Acme Inc"}}, {{"Acme", "Acme Corp"}}),
     Geometry({{"Acme", "Acme Inc"}, {"Acme", "Acme Corp"}, {"Acme Inc", "Acme Corp"},
               {"Acme", "Acme Inc."}, {"Acme Corp", "Acme Inc."},
               {"Acme Inc", "Acme Inc."}}, {})}

NoResolution == resolve_entities(<<>>, <<>>, TRUE, Geometry({}, {}), "first")

InitResolve ==
    /\ NewPipeline
    /\ validation = NoValidation
    /\ arbitration = NoArbitration
    /\ \E relations \in SeqsUpTo(ResolveRelations, MaxResolveRelations),
          known_entities \in KnownEntityLists,
          geometry \in ResolveGeometries,
          config \in {<<TRUE, llm>> : llm \in ArbitrationModels} \cup {<<FALSE, "first">>} :
        call = [fn |-> "resolve_entities", phase |-> "input", relations |-> relations,
                known_entities |-> known_entities, llm_arbitration |-> config[1],
                geometry |-> geometry, llm |-> config[2],
                out |-> NoResolution, again |-> NoResolution]

\* resolve_entities(relations, client, config, known_entities) returns or raises
ResolveCall ==
    /\ call.fn = "resolve_entities"
    /\ call.phase = "input"
    /\ call' = [call EXCEPT
                   !.phase = "done",
                   !.out = resolve_entities(call.relations, call.known_entities,
                                            call.llm_arbitration, call.geometry,
                                            call.llm)]
    /\ UNCHANGED <<pipeline_vars, validation, arbitration>>

\* resolve_entities is called again on the relations the first call returned,
\* with the same known entities, configuration and models
ResolveAgain ==
    /\ call.fn = "resolve_entities"
    /\ call.phase = "done"
    /\ call.out.status = "ok"
    /\ call' = [call EXCEPT
                   !.phase = "twice",
                   !.again = resolve_entities(call.out.relations, call.known_entities,
                                              call.llm_arbitration, call.geometry,
                                              call.llm)]
    /\ UNCHANGED <<pipeline_vars, validation, arbitration>>

SpecResolve == InitResolve /\ [][ResolveCall \/ ResolveAgain]_vars

\* ------------------------------------------------------------------------
\* run_symbolic_validation called on one relation, with and without the
\* texts of its document and chunks
\* ------------------------------------------------------------------------
\* Number of evidence items of the relation
MaxEvidence == 2

\* Evidence of a relation of d1: quotes inside the first chunk, across the
\* two chunks, in the second chunk, and absent from the document; assigned to
\* the first chunk, to no chunk, or to a chunk that is not of this chunking
QuoteEvidence ==
    {Evidence(<<"s1">>, FirstChunkId),
     Evidence(<<"s1", "s2">>, FirstChunkId),
     Evidence(<<"s1", "s2">>, <<>>),
     Evidence(<<"s2">>, <<>>),
     Evidence(<<"s2">>, generate_chunk_id("d1", 7, <<"s2">>)),
     Evidence(<<"s3">>, <<>>)}

NoViolations == <<>>

InitQuotes ==
    /\ NewPipeline
    /\ validation = NoValidation
    /\ arbitration = NoArbitration
    /\ \E evidence \in SeqsUpTo(QuoteEvidence, MaxEvidence),
          doc_texts \in {<<>>, doc_texts_of(ValidationDocs)},
          chunk_texts \in {<<>>, chunk_texts_of(chunk_documents(ValidationDocs))} :
        call = [fn |-> "run_symbolic_validation", phase |-> "input",
                relations |-> <<with_roles(RawRelation("full", "d1", ACQUIRE_FIRM, "q",
                                                       evidence, 90),
                                           Roles(<<Acme>>, <<Bolt>>, <<>>, <<>>))>>,
                doc_texts |-> doc_texts, chunk_texts |-> chunk_texts,
                out |-> NoViolations]

\* run_symbolic_validation(relations, blocklist, doc_texts=, chunk_texts=)
QuotesCall ==
    /\ call.fn = "run_symbolic_validation"
    /\ call.phase = "input"
    /\ call' = [call EXCEPT
                   !.phase = "done",
                   !.out = run_symbolic_validation(call.relations,
                               generic_entity_blocklist, call.doc_texts,
                               call.chunk_texts)]
    /\ UNCHANGED <<pipeline_vars, validation, arbitration>>

SpecQuotes == InitQuotes /\ [][QuotesCall]_vars

\* ------------------------------------------------------------------------
\* chunk_document on the characters of a text, one window per step
\* (utils/chunking.py).  A text is a sequence of characters, its token list
\* has SegTokens(c) tokens for the character c, offsets count from 0
\* ------------------------------------------------------------------------
\* Length of the texts handed to chunk_document
MaxTextLen == 5

\* The characters of the texts: a space, a full stop (which ends a sentence
\* only when whitespace follows it) and a character of two tokens
TextAlphabet == {" ", ".", "W"}

\* The token budgets and overlaps chunk_document is called with
ChunkBudgets == 1..4
ChunkOverlaps == 0..2

\* [.!?] and \s of _SENTENCE_SPLIT
SentencePunctuation == {".", "!", "?"}
Whitespace == {" "}

\* How far back _hard_split_segment looks for a space
snap_lookback == 200

\* text[a:b]
Slice(text, a, b) == SubSeq(text, a + 1, b)

\* not text.strip()
TextIsBlank(text) == \A i \in DOMAIN text : text[i] \in Whitespace

\* _split_sentences reading m.end() of every match of (?<=[.!?])\s+ : the
\* ends of the whitespace runs that directly follow sentence punctuation
SentenceEnds(text) ==
    {e \in 1..Len(text) :
        /\ e = Len(text) \/ text[e + 1] \notin Whitespace
        /\ \E s \in 1..(e - 1) :
              /\ text[s] \in SentencePunctuation
              /\ \A k \in (s + 1)..e : text[k] \in Whitespace}

\* _split_sentences without its trailing remainder
split_sentences_drop_remainder(text) ==
    LET ends == SentenceEnds(text)
        nth(i) == CHOOSE e \in ends : Cardinality({d \in ends : d < e}) = i - 1
    IN [i \in 1..Cardinality(ends) |->
           Slice(text, IF i = 1 THEN 0 ELSE nth(i - 1), nth(i))]

\* _split_sentences: the pieces text[last:end], then the remainder
split_sentences(text) ==
    LET ends == SentenceEnds(text) \cup (IF text = <<>> THEN {} ELSE {Len(text)})
        nth(i) == CHOOSE e \in ends : Cardinality({d \in ends : d < e}) = i - 1
    IN [i \in 1..Cardinality(ends) |->
           Slice(text, IF i = 1 THEN 0 ELSE nth(i - 1), nth(i))]

\* len(enc.decode(remaining_tokens[:max_tokens])): the characters the first
\* max_tokens tokens belong to, a partly covered character decoding to one
\* replacement character
DecodedLength(remaining, max_tokens) ==
    LET reach == {n \in 1..Len(remaining) :
                     SumTokens(SubSeq(remaining, 1, n)) >= max_tokens}
    IN CHOOSE n \in reach : \A m \in reach : n <= m

\* The while loop of _hard_split_segment from the character cursor pos
hard_split_from(segment, pos, max_tokens) ==
    LET pieces[p \in 0..Len(segment)] ==
            IF p >= Len(segment) THEN <<>>
            ELSE IF SumTokens(Slice(segment, p, Len(segment))) <= max_tokens
            THEN <<Slice(segment, p, Len(segment))>>
            ELSE
              LET approx == p + DecodedLength(Slice(segment, p, Len(segment)),
                                              max_tokens)
                  spaces == {i \in Max({p, approx - snap_lookback})..(approx - 1) :
                                segment[i + 1] = " "}
                  snap == IF spaces = {} THEN -1 ELSE Max(spaces)
                  cut == IF snap > p THEN snap + 1 ELSE approx
              IN <<Slice(segment, p, cut)>> \o pieces[cut]
    IN pieces[pos]

\* _hard_split_segment(segment, max_tokens, enc)
hard_split_segment(segment, max_tokens) ==
    IF SumTokens(segment) <= max_tokens THEN <<segment>>
    ELSE hard_split_from(segment, 0, max_tokens)

\* `for s in raw_sentences: sentences.extend(_hard_split_segment(s, ...))`
chunk_sentences(text, max_tokens) ==
    LET raw_sentences == split_sentences(text)
        extended[i \in 1..(Len(raw_sentences) + 1)] ==
            IF i > Len(raw_sentences) THEN <<>>
            ELSE hard_split_segment(raw_sentences[i], max_tokens) \o extended[i + 1]
    IN extended[1]

\* sent_tokens = [len(enc.encode(s)) for s in sentences]
sent_tokens_of(sentences) == [i \in DOMAIN sentences |-> SumTokens(sentences[i])]

\* sum(len(sentences[k]) for k in range(first_sent_idx))
start_char_of(sentences, first) == Len(Flatten(SubSeq(sentences, 1, first - 1)))

\* The Chunk emitted for the window sentences[first .. j-1]
window_chunk(sentences, document_id, first, j, chunk_index) ==
    LET chunk_text == Flatten(SubSeq(sentences, first, j - 1))
        start_char == start_char_of(sentences, first)
    IN [chunk_id |-> generate_chunk_id(document_id, chunk_index, chunk_text),
        document_id |-> document_id,
        index |-> chunk_index,
        text |-> chunk_text,
        start_char |-> start_char,
        end_char |-> start_char + Len(chunk_text),
        token_count |-> SumTokens(chunk_text)]

\* idx = rewind_to if rewind_to > idx else j, ignoring the comparison
next_idx_rewound(sent_tokens, idx, j, overlap_tokens) ==
    RewindTo(sent_tokens, j - 1, idx, 0, j, overlap_tokens)

\* idx = rewind_to if rewind_to > idx else j
next_idx(sent_tokens, idx, j, overlap_tokens) ==
    LET rewind_to == RewindTo(sent_tokens, j - 1, idx, 0, j, overlap_tokens)
    IN IF rewind_to > idx THEN rewind_to ELSE j

NoSentences == <<>>
NoChunks == <<>>

InitChunk ==
    /\ NewPipeline
    /\ validation = NoValidation
    /\ arbitration = NoArbitration
    /\ call = [fn |-> "chunk_document", phase |-> "caller",
               text |-> <<>>, document_id |-> "d1",
               max_tokens |-> 1, overlap_tokens |-> 0,
               sentences |-> NoSentences, idx |-> 1, out |-> NoChunks]

\* A caller hands chunk_document a text, a budget and an overlap
ChunkEnter ==
    /\ call.fn = "chunk_document"
    /\ call.phase = "caller"
    /\ \E text \in SeqsUpTo(TextAlphabet, MaxTextLen),
          max_tokens \in ChunkBudgets, overlap_tokens \in ChunkOverlaps :
        call' = [call EXCEPT !.phase = "input", !.text = text,
                             !.max_tokens = max_tokens,
                             !.overlap_tokens = overlap_tokens]
    /\ UNCHANGED <<pipeline_vars, validation, arbitration>>

\* chunk_document up to its window loop on the locals of the call: the
\* blank-text return, the sentence split and the hard split
split_pass(c) ==
    IF TextIsBlank(c.text)
    THEN [c EXCEPT !.phase = "done"]
    ELSE [c EXCEPT !.phase = "window",
                   !.sentences = chunk_sentences(c.text, c.max_tokens)]

\* chunk_document from its entry to the window loop
ChunkSplit ==
    /\ call.fn = "chunk_document"
    /\ call.phase = "input"
    /\ call' = split_pass(call)
    /\ UNCHANGED <<pipeline_vars, validation, arbitration>>

\* One pass of `while idx < len(sentences)` on the locals of the call:
\* accumulate the window, emit its chunk, then stop at the end of the text or
\* move the cursor
window_pass(c) ==
    LET sent_tokens == sent_tokens_of(c.sentences)
        j == WindowEnd(sent_tokens, c.idx, 0, FALSE, c.max_tokens)
        chunk == window_chunk(c.sentences, c.document_id, c.idx, j, Len(c.out))
    IN IF c.idx > Len(c.sentences)
       THEN [c EXCEPT !.phase = "done"]
       ELSE IF j > Len(c.sentences)
       THEN [c EXCEPT !.phase = "done", !.out = Append(@, chunk)]
       ELSE [c EXCEPT !.out = Append(@, chunk),
                      !.idx = next_idx(sent_tokens, c.idx, j, c.overlap_tokens)]

\* The window loop of chunk_document, one pass per step
ChunkWindow ==
    /\ call.fn = "chunk_document"
    /\ call.phase = "window"
    /\ call' = window_pass(call)
    /\ UNCHANGED <<pipeline_vars, validation, arbitration>>

SpecChunk == InitChunk /\ [][ChunkEnter \/ ChunkSplit \/ ChunkWindow]_vars

\* Nothing stops the window loop between two passes
SpecChunkFair == SpecChunk /\ WF_vars(ChunkWindow)

\* ------------------------------------------------------------------------
\* _compute_drift_score and its cache of the ontology type embeddings, across
\* drift checks and replacements of the ontology (workflow/pipeline.py)
\* ------------------------------------------------------------------------
\* Number of relation types of an ontology
MaxTypeTexts == 2

\* f"{t.label}: {t.definition}" of the relation types an ontology can hold
TypeTexts == {"ACQUIRE_FIRM: a firm buys a firm", "FOUND_FIRM: a person founds a firm"}
TypeTextLists == SeqsUpTo(TypeTexts, MaxTypeTexts)

\* How the embedding calls of one drift computation end
EmbeddingOutcomes == {"ok", "type_call_raises", "relation_call_raises"}

\* compute_embeddings(texts, client, model): one row per text, the vector the
\* embedding model gives that text
compute_embeddings(texts) == [i \in DOMAIN texts |-> <<"vector", texts[i]>>]

\* _compute_drift_score on the fields of the pipeline: c holds the ontology
\* (has_ontology, type_texts), the cache (cached_ontology_type_texts,
\* cached_none for `is None`, cached_ontology_type_embeddings) and what the
\* computation did (status, recomputed, used for "type_emb was read", type_emb)
drift_score_pass(c, has_relations, outcome) ==
    IF ~c.has_ontology \/ c.type_texts = <<>> \/ ~has_relations
    THEN [c EXCEPT !.status = "returned", !.recomputed = FALSE, !.used = FALSE]
    ELSE IF c.type_texts # c.cached_ontology_type_texts \/ c.cached_none
    THEN IF outcome = "type_call_raises"
         THEN [c EXCEPT !.cached_ontology_type_texts = c.type_texts,
                        !.status = "raised", !.recomputed = FALSE, !.used = FALSE]
         ELSE [c EXCEPT !.cached_ontology_type_texts = c.type_texts,
                        !.cached_none = FALSE,
                        !.cached_ontology_type_embeddings =
                            compute_embeddings(c.type_texts),
                        !.status = IF outcome = "relation_call_raises" THEN "raised"
                                   ELSE "returned",
                        !.recomputed = TRUE,
                        !.used = TRUE,
                        !.type_emb = compute_embeddings(c.type_texts)]
    ELSE [c EXCEPT !.status = IF outcome = "relation_call_raises" THEN "raised"
                              ELSE "returned",
                   !.recomputed = FALSE,
                   !.used = TRUE,
                   !.type_emb = c.cached_ontology_type_embeddings]

\* A pipeline after construction: no ontology, an empty cache
InitDriftCache ==
    /\ NewPipeline
    /\ validation = NoValidation
    /\ arbitration = NoArbitration
    /\ call = [fn |-> "compute_drift_score", step |-> "new",
               has_ontology |-> FALSE, type_texts |-> <<>>,
               cached_ontology_type_texts |-> <<>>, cached_none |-> TRUE,
               cached_ontology_type_embeddings |-> <<>>,
               status |-> "none", recomputed |-> FALSE, used |-> FALSE,
               type_emb |-> <<>>]

\* self._ontology = ...: the Arbiter's outcome, a loaded or a seeded ontology
ReplaceOntology ==
    /\ call.fn = "compute_drift_score"
    /\ \E texts \in TypeTextLists :
        call' = [call EXCEPT !.step = "replace", !.has_ontology = TRUE,
                             !.type_texts = texts]
    /\ UNCHANGED <<pipeline_vars, validation, arbitration>>

\* One drift check: _compute_drift_score(extracted_relations) returns or raises
DriftScore ==
    /\ call.fn = "compute_drift_score"
    /\ \E has_relations \in BOOLEAN, outcome \in EmbeddingOutcomes :
        call' = [drift_score_pass(call, has_relations, outcome) EXCEPT !.step = "drift"]
    /\ UNCHANGED <<pipeline_vars, validation, arbitration>>

SpecDriftCache == InitDriftCache /\ [][ReplaceOntology \/ DriftScore]_vars

\* ------------------------------------------------------------------------
\* build_graph_elements called on its own, and called again on the same
\* relations in the opposite order
\* ------------------------------------------------------------------------
\* Length of the relation lists handed to build_graph_elements
MaxGraphRelations == 2

\* A second extraction of Acme, with the definition and confidence the role
\* call gave it in another relation, and a person of the same name
AcmeAnvils == Entity("Company", "Acme", "a maker of anvils", 70)
AcmePerson == Entity("Person", "Acme", "a human", 90)

GraphChunks == chunk_document(D1.text, D1.id, pipeline_max_tokens, pipeline_overlap_tokens)

GraphRelation(desc, roles, evidence) ==
    with_roles(RawRelation("full", D1.id, ACQUIRE_FIRM, desc, evidence, 90), roles)

GraphRelations ==
    {GraphRelation("a", Roles(<<Acme>>, <<Bolt>>, <<>>, <<>>),
                   <<Evidence(<<"s1">>, GraphChunks[1].chunk_id)>>),
     GraphRelation("b", Roles(<<AcmeAnvils>>, <<Bolt>>, <<>>, <<>>),
                   <<Evidence(<<"s1">>, GraphChunks[1].chunk_id)>>),
     GraphRelation("c", Roles(<<AcmeInc>>, <<Bob>>, <<>>, <<>>), <<>>),
     GraphRelation("d", Roles(<<Bob>>, <<AcmePerson>>, <<Acme>>, <<>>), <<>>)}

Reverse(s) == [i \in DOMAIN s |-> s[Len(s) + 1 - i]]

NoGraph == [nodes |-> <<>>, edges |-> <<>>]

InitGraph ==
    /\ NewPipeline
    /\ validation = NoValidation
    /\ arbitration = NoArbitration
    /\ \E relations \in SeqsUpTo(GraphRelations, MaxGraphRelations),
          chunks \in {<<>>, GraphChunks},
          with_mentions \in BOOLEAN :
        call = [fn |-> "build_graph_elements", phase |-> "input",
                relations |-> relations, document_id |-> D1.id, chunks |-> chunks,
                mentions |-> IF with_mentions
                             THEN collect_mentions(relations,
                                                   snapshot_surface_forms(relations))
                             ELSE <<>>,
                out |-> NoGraph, permuted |-> NoGraph]

\* build_graph_elements(relations, document_id, chunks=, mentions=)
GraphCall ==
    /\ call.fn = "build_graph_elements"
    /\ call.phase = "input"
    /\ call' = [call EXCEPT
                   !.phase = "done",
                   !.out = build_graph_elements(call.relations, call.document_id,
                                                call.chunks, call.mentions)]
    /\ UNCHANGED <<pipeline_vars, validation, arbitration>>

\* build_graph_elements on the same relations in the opposite order
GraphCallPermuted ==
    /\ call.fn = "build_graph_elements"
    /\ call.phase = "done"
    /\ call' = [call EXCEPT
                   !.phase = "permuted",
                   !.permuted = build_graph_elements(Reverse(call.relations),
                                                     call.document_id, call.chunks,
                                                     call.mentions)]
    /\ UNCHANGED <<pipeline_vars, validation, arbitration>>

SpecGraph == InitGraph /\ [][GraphCall \/ GraphCallPermuted]_vars

\* ------------------------------------------------------------------------
\* Claims
\* ------------------------------------------------------------------------
\* A call of Pipeline.process begins in this step
BatchStarts == pc \in {"idle", "done"} /\ pc' = "extract"

\* C1: at the start of every batch the full path is taken exactly when there
\* is no ontology or documents_since_last_negotiation >= the staleness
\* threshold, and the fast path otherwise.
C1_RoutingRule ==
    [][BatchStarts =>
          /\ path' \in {"full", "fast"}
          /\ path' = "full" <=>
                \/ ontology = 0
                \/ heap[ontology].documents_since_last_negotiation
                       >= ontology_staleness_threshold]_vars

\* A batch routed to the full path because the counter has just reached the
\* threshold
C1_Witness ==
    /\ pc = "extract"
    /\ path = "full"
    /\ ~restarted
    /\ ontology # 0
    /\ heap[ontology].documents_since_last_negotiation = ontology_staleness_threshold

\* The relations a batch holds at any stage, and those it returned
HeldRelations ==
    Range(all_raw) \cup Range(all_relations) \cup Range(valid_relations)
    \cup Range(result.relations)

\* Whether the drift check reports drift on the relations of the fast path
DriftReported ==
    \A sim \in DriftSimilarities :
        should_negotiate_by_drift(ontology # 0, Current, all_relations,
                                  [i \in DOMAIN all_relations |-> sim])

\* C2: on the fast path the drift check comes after role filling and before
\* QC, arbitration, resolution, validation and export; on drift the relations
\* of the fast path are discarded and the batch restarts on the full path from
\* extraction, the ontology being the same as when the fast path began.
C2_DriftRestart ==
    /\ [](restarted => \A r \in HeldRelations : r.run = "full")
    /\ [][/\ (pc' = "drift" /\ pc # "drift") => (pc = "fill" /\ path = "fast")
          /\ (path = "fast" /\ pc' # pc /\ pc = "fill") => pc' = "drift"
          /\ (pc = "drift" /\ DriftReported) =>
                /\ pc' = "extract" /\ path' = "full" /\ cursor' = 0
                /\ all_raw' = <<>> /\ all_relations' = <<>>
                /\ documents' = documents
          /\ (pc = "drift" /\ ~DriftReported) => (pc' = "qc" /\ path' = "fast")
          /\ (path = "fast" /\ pc \in {"extract", "fill", "drift"}) =>
                (heap' = heap /\ ontology' = ontology)
          /\ (path = "fast" /\ pc' = "qc" /\ pc # "qc") => pc = "drift"
          /\ (path = "fast" /\ pc' # pc /\
                 pc' \in {"candidates", "arbiter", "resolve", "chunk", "validate",
                          "export", "done"}) =>
                pc \in {"extract", "qc", "candidates", "arbiter", "resolve", "chunk",
                        "validate", "export"}
         ]_vars

\* A batch that drifted on the fast path and returned relations of the full path
C2_Witness ==
    /\ restarted
    /\ pc = "done"
    /\ result.status = "ok"
    /\ result.relations # <<>>

\* Whether validation finds an error-severity violation on a relation
HasError(relation, doc_texts, chunk_texts) ==
    \E v \in Range(run_symbolic_validation(<<relation>>, generic_entity_blocklist,
                                           doc_texts, chunk_texts)) :
        v.severity = "error"

\* Whether validation finds any violation on a relation
HasViolation(relation, doc_texts, chunk_texts) ==
    run_symbolic_validation(<<relation>>, generic_entity_blocklist,
                            doc_texts, chunk_texts) # <<>>

ValidationDocTexts == doc_texts_of(ValidationDocs)
ValidationChunkTexts == chunk_texts_of(chunk_documents(ValidationDocs))

\* The positions of a list that hold a relation with an error
ErrorPositions(relations) ==
    {i \in DOMAIN relations :
        HasError(relations[i], ValidationDocTexts, ValidationChunkTexts)}

\* The sublist of the given positions, in order
RECURSIVE SubList(_, _, _)
SubList(relations, positions, i) ==
    IF i > Len(relations) THEN <<>>
    ELSE (IF i \in positions THEN <<relations[i]>> ELSE <<>>)
         \o SubList(relations, positions, i + 1)

\* C3: validation partitions its input: rejected exactly the relations with at
\* least one error-severity violation, warnings alone never rejecting, the
\* others retained whatever their siblings, valid and rejected disjoint and
\* together the input, the rejected count the number of rejected relations; a
\* relation with no agent yields one error, two when it has no theme either.
C3_ValidationPartition ==
    validation.phase = "done" =>
        LET relations == validation.relations
            out == validation.out
            bad == ErrorPositions(relations)
        IN /\ out.rejected = SubList(relations, bad, 1)
           /\ out.valid = SubList(relations, DOMAIN relations \ bad, 1)
           /\ Len(out.valid) + Len(out.rejected) = Len(relations)
           /\ out.rejected_count = Cardinality(bad)
           /\ \A i \in DOMAIN relations :
                 LET errors == Errors(check_has_agent_and_theme(relations[i]))
                     roles == relations[i].roles
                 IN /\ (roles.agents = <<>> /\ roles.themes # <<>>) => Len(errors) = 1
                    /\ (roles.agents = <<>> /\ roles.themes = <<>>) => Len(errors) = 2
                    /\ (roles.agents = <<>>) => i \in bad

\* A list with a relation retained despite warnings, between a relation
\* without agent and one without any role, both rejected
C3_Witness ==
    /\ validation.phase = "done"
    /\ Len(validation.relations) = 3
    /\ validation.relations[1].desc = "no_agent"
    /\ validation.relations[2].desc = "warned"
    /\ validation.relations[3].desc = "no_roles"
    /\ HasViolation(validation.relations[2], ValidationDocTexts, ValidationChunkTexts)
    /\ validation.out.rejected_count = 2
    /\ Len(validation.out.valid) = 1

\* The relations of the batch that pass validation, at export time
Passed ==
    SelectSeq(all_relations,
              LAMBDA r : ~HasError(r, doc_texts_of(documents),
                                   chunk_texts_of(doc_chunks)))

NodeIds(kind) == {n.id : n \in {m \in Range(result.nodes) : m.id[1] = kind}}

RoleEdges ==
    {e \in Range(result.edges) : e.relation_type \in {"AGENT", "THEME", "CONTEXT"}}

\* C4: the graph built for a batch has a Relation node for exactly the
\* relations that passed validation, Entity nodes and role edges only for
\* their participants; a rejected relation has no node and no edge leaving one.
C4_GraphOfValidRelations ==
    (pc = "done" /\ result.status = "ok") =>
        LET passed == Range(Passed)
            rejected == Range(all_relations) \ passed
        IN /\ NodeIds("Relation") = {relation_node_id(r) : r \in passed}
           /\ NodeIds("Entity") =
                 UNION {{entity_id(e.label, e.name) :
                            e \in Range(all_entities(r.roles))} : r \in passed}
           /\ {<<e.source_id, e.target_id, e.relation_type>> : e \in RoleEdges} =
                 UNION {{<<relation_node_id(r), entity_id(p[2].label, p[2].name), p[1]>> :
                            p \in Range(role_map(r))} : r \in passed}
           /\ \A r \in rejected :
                 /\ relation_node_id(r) \notin NodeIds("Relation")
                 /\ \A e \in Range(result.edges) : e.source_id # relation_node_id(r)
           /\ result.relations = Passed

\* A batch that exported one relation and rejected another
C4_Witness ==
    /\ pc = "done"
    /\ result.status = "ok"
    /\ result.rejected_relations_count = 1
    /\ Len(result.relations) = 1
    /\ Cardinality(NodeIds("Relation")) = 1
    /\ Len(all_relations) = 2

\* C5: when the extraction of one document raises, only that document is
\* given up: the other documents of the batch are still extracted and the
\* batch returns a result.
C5_ExtractionFailureIsLocal ==
    pc = "done" => (result.status = "ok" /\ cursor = Len(documents))

\* Whether the structured role call fails on a raw relation: the call raises,
\* or a filled entity carries a blocklisted label
RoleFillFails(response) ==
    \/ response.raised
    \/ \E e \in Range(all_entities(response.roles)) :
          lower(e.label) \in {lower(b) : b \in generic_entity_blocklist}

\* The raw relations of the batch whose roles were filled, in order
FilledPositions == {i \in DOMAIN all_raw : ~RoleFillFails(role_responses[i])}

\* The stages after role filling
AfterFill == {"drift", "qc", "candidates", "arbiter", "resolve", "chunk",
              "validate", "export"}

Version(objects, ref) == IF ref = 0 THEN 0 ELSE objects[ref].version

\* C7: every application of Arbiter decisions yields version = previous + 1
\* (1 without a previous ontology) and parent_version = previous version (None
\* without); over the batches the version never decreases nor skips a number.
C7_VersionChain ==
    /\ [][/\ Version(heap', ontology') \in
                {Version(heap, ontology), Version(heap, ontology) + 1}
          /\ (pc = "arbiter" /\ pc' = "resolve") =>
                /\ ontology' # 0
                /\ heap'[ontology'].version = Version(heap, ontology) + 1
                /\ heap'[ontology'].parent_version =
                      IF ontology = 0 THEN NoParent ELSE heap[ontology].version
          /\ ~(pc = "arbiter" /\ pc' = "resolve") =>
                Version(heap', ontology') = Version(heap, ontology)]_vars
    /\ [](ontology # 0 =>
             /\ heap[ontology].version >= 1
             /\ heap[ontology].parent_version = heap[ontology].version - 1)

\* The second ontology of a pipeline, made from the first
C7_Witness ==
    /\ ontology # 0
    /\ heap[ontology].version = 2
    /\ heap[ontology].parent_version = 1
    /\ pc = "resolve"

\* The fields of a schema other than the document counter
Governed(schema) ==
    <<schema.version, schema.parent_version, schema.entity_types,
      schema.relation_types>>

\* The arbitration step: _run_arbiter applies the decisions
Arbitrates == pc = "arbiter" /\ pc' = "resolve"

\* C8: the version and the type lists of the ontology change only in the
\* arbitration step, which replaces the whole object by the result of
\* apply_arbiter_decisions and leaves the previous schema object unmodified;
\* the other stages only read the ontology, and the only field written
\* outside arbitration is documents_since_last_negotiation, when a batch ends.
C8_OntologyWrittenOnlyByArbitration ==
    [][/\ \A a \in DOMAIN heap \cap DOMAIN heap' : Governed(heap'[a]) = Governed(heap[a])
       /\ Arbitrates =>
             /\ ontology' \notin DOMAIN heap
             /\ heap'[ontology'] =
                   apply_arbiter_decisions(decisions, ontology # 0, Current)
             /\ \A a \in DOMAIN heap : a \in DOMAIN heap' /\ heap'[a] = heap[a]
       /\ ~Arbitrates =>
             /\ ontology' = ontology
             /\ ontology # 0 => Governed(heap'[ontology]) = Governed(heap[ontology])
             /\ \A a \in DOMAIN heap \cap DOMAIN heap' :
                   heap'[a] # heap[a] =>
                       (a = ontology /\ pc = "export" /\ pc' = "done")
      ]_vars

\* After an arbitration on an existing ontology: the replaced object is still
\* there as it was, with the document count of the batch before
C8_Witness ==
    /\ Cardinality(DOMAIN heap) = 2
    /\ pc = "done"
    /\ result.status = "ok"
    /\ \E a \in DOMAIN heap :
          /\ a # ontology
          /\ heap[a].version = 1
          /\ heap[a].documents_since_last_negotiation = 2
          /\ heap[a].relation_types # <<>>
    /\ heap[ontology].documents_since_last_negotiation = 1

\* The decisions of the session on a candidate
DecisionsOn(c) ==
    {i \in DOMAIN decisions :
        decisions[i].kind = c.kind /\ decisions[i].label = c.label}

\* C9: in a governance round every presented candidate ends with exactly one
\* decision and is not decided twice; a round in which a presented candidate
\* has no decision is a failed round, not applied to the ontology.
C9_OneDecisionPerCandidate ==
    [][(pc = "arbiter" /\ (ontology' # ontology \/ heap' # heap)) =>
          \A c \in Range(candidates) : Cardinality(DecisionsOn(c)) = 1]_vars

\* The types the claim expects of apply_arbiter_decisions for one kind
AcceptedLabels(decs, kind) ==
    {decs[i].label : i \in {j \in DOMAIN decs :
                               decs[j].action = "accept" /\ decs[j].kind = kind}}

ExpectedTypes(existing, decs, kind) ==
    Range(existing)
    \cup {OntologyType(l, FALSE) : l \in AcceptedLabels(decs, kind) \ Labels(existing)}

\* C10: apply_arbiter_decisions returns, for each kind, the existing types
\* plus one non-seed type per accepted label; merge and reject add no type and
\* leave every existing type in the result (a reject has no effect, the
\* target of a merge is present afterwards).
C10_DecisionsOnlyAddAcceptedTypes ==
    arbitration.phase = "done" =>
        LET decs == arbitration.decisions
            out == arbitration.out
            old_ent == IF arbitration.has THEN arbitration.cur.entity_types ELSE <<>>
            old_rel == IF arbitration.has THEN arbitration.cur.relation_types ELSE <<>>
        IN /\ Range(out.entity_types) = ExpectedTypes(old_ent, decs, "entity")
           /\ Range(out.relation_types) = ExpectedTypes(old_rel, decs, "relation")
           /\ \A i \in DOMAIN decs :
                 decs[i].action = "merge" =>
                     decs[i].merge_target \in
                         Labels(IF decs[i].kind = "relation"
                                THEN out.relation_types ELSE out.entity_types)

\* The (kind, label) pairs the relations of a list propose as types
Harvested(relations) ==
    UNION {{CandidateType("relation", r.rt.label)}
           \cup {CandidateType("entity", e.label) : e \in Range(all_entities(r.roles))}
           \cup {CandidateType("entity", l) : l \in Range(r.roles.candidate_entity_types)}
           : r \in Range(relations)}

\* The labels of the existing types of a kind, normalised
NormalisedExisting(has, cur, kind) ==
    IF ~has THEN {}
    ELSE {sanitize_for_identifier(ty.label) :
             ty \in Range(IF kind = "relation" THEN cur.relation_types
                          ELSE cur.entity_types)}

HasTypes(has, cur) == has /\ (cur.relation_types # <<>> \/ cur.entity_types # <<>>)

\* C11: the candidates forwarded to the Arbiter are exactly the harvested
\* candidates whose normalised label equals no normalised existing label and,
\* when the ontology has types, whose largest similarity to an existing type
\* is below 0.90; without existing types every Stage-1 survivor is forwarded.
C11_ForwardedCandidates ==
    (call.fn = "collect_candidates" /\ call.phase = "done") =>
        LET expected ==
                {c \in Harvested(call.relations) :
                    /\ c.label # ""
                    /\ sanitize_for_identifier(c.label) \notin
                           NormalisedExisting(call.has, call.cur, c.kind)
                    /\ HasTypes(call.has, call.cur) => call.sims[c] < 90}
        IN /\ Range(call.out) = expected
           /\ Len(call.out) = Cardinality(expected)

\* A call on an ontology with types in which Company is dropped by its
\* normalised label, BUY_FIRM is dropped at similarity 0.90 and Device is
\* forwarded at 0.89
C11_Witness ==
    /\ call.fn = "collect_candidates"
    /\ call.phase = "done"
    /\ call.has
    /\ Labels(call.cur.entity_types) = {"COMPANY"}
    /\ Len(call.relations) = 2
    /\ CandidateType("entity", "Company") \in Harvested(call.relations)
    /\ call.sims[CandidateType("relation", "BUY_FIRM")] = 90
    /\ call.sims[CandidateType("entity", "Device")] = 89
    /\ call.out = <<CandidateType("entity", "Device")>>

\* C12: should_renegotiate returns true without ontology or without relation
\* types; otherwise false for fewer than 10 relations whatever the
\* similarities; otherwise true exactly when drift = 1 - mean(max similarity)
\* is >= 0.25, equivalently when the mean best-match similarity is < 0.75.
C12_RenegotiationRule ==
    (call.fn = "should_negotiate_by_drift" /\ call.phase = "done") =>
        LET n == Len(call.relations)
            sum == Sum(call.max_sims)
        IN IF ~call.has \/ call.cur.relation_types = <<>> THEN call.out = TRUE
           ELSE IF n < 10 THEN call.out = FALSE
           ELSE /\ call.out <=> (100 * n - sum >= 25 * n)
                /\ call.out <=> (sum < 75 * n)

\* The mentions of a pass: those of the relations, then the phantoms, which
\* are built only when the batch has a relation
PassMentions ==
    IF call.relations = <<>> THEN <<>>
    ELSE build_mentions(call.relations) \o build_known_mentions(call.known_entities)

\* How often x occurs in a sequence
Count(s, x) == Cardinality({i \in DOMAIN s : s[i] = x})

\* The first pass is over, by a return or by an exception
ResolveDone == call.fn = "resolve_entities" /\ call.phase \in {"done", "twice"}

\* Every mention lies in exactly one cluster of the first pass
ClustersPartition ==
    \A i \in DOMAIN PassMentions :
        Count(Flatten(call.out.clusters), PassMentions[i]) = 1

\* No phantom entity was assigned in the first pass
NoPhantomRewritten ==
    \A i \in DOMAIN call.out.writes : ~call.out.writes[i].is_known

\* The model and configuration of the call merge a cluster of several
\* surface forms
MergesClusters == ~call.llm_arbitration \/ call.llm \in {"first", "last"}

\* C13 (as stated): Stages 1 and 2 place every mention in exactly one
\* cluster, every non-phantom Entity of the batch is rewritten in place
\* exactly once per pass, and no phantom entity is ever rewritten.
C13_RewrittenExactlyOnce ==
    (ResolveDone /\ call.out.status = "ok") =>
        /\ ClustersPartition
        /\ \A i \in DOMAIN PassMentions :
              ~PassMentions[i].is_known => Count(call.out.writes, PassMentions[i]) = 1
        /\ NoPhantomRewritten

\* C13 (amended): Stages 1 and 2 place every mention in exactly one cluster;
\* every non-phantom Entity of the batch is rewritten in place at most once
\* per pass: once when its cluster has several surface forms and is merged,
\* not at all otherwise; no phantom entity is ever rewritten.
C13_RewrittenAtMostOnce ==
    ResolveDone =>
        /\ ClustersPartition
        /\ \A i \in DOMAIN PassMentions :
              Count(call.out.writes, PassMentions[i]) <= 1
        /\ call.out.status = "ok" =>
              \A c \in DOMAIN call.out.clusters :
                 \A k \in DOMAIN call.out.clusters[c] :
                    LET m == call.out.clusters[c][k]
                        merged == /\ needs_arbitration(call.relations, call.out.clusters[c])
                                  /\ MergesClusters
                    IN ~m.is_known =>
                          Count(call.out.writes, m) = IF merged THEN 1 ELSE 0
        /\ NoPhantomRewritten

\* A pass that merged a cluster holding a phantom and left another entity of
\* the batch as it was
C13_Witness ==
    /\ ResolveDone
    /\ call.out.status = "ok"
    /\ \E c \in DOMAIN call.out.clusters :
          /\ \E k \in DOMAIN call.out.clusters[c] : call.out.clusters[c][k].is_known
          /\ \E k \in DOMAIN call.out.clusters[c] :
                Count(call.out.writes, call.out.clusters[c][k]) = 1
    /\ \E i \in DOMAIN PassMentions :
          ~PassMentions[i].is_known /\ Count(call.out.writes, PassMentions[i]) = 0

\* (name, label, definition) of an entity
Canonical(entity) == <<entity.name, entity.label, entity.definition>>

\* C14: when a merged cluster contains a phantom mention of a known graph
\* entity, the canonical (name, label, definition) written to the entities of
\* the cluster is that of the phantom, under LLM arbitration as under the
\* fallback.
C14_PhantomIsCanonical ==
    (ResolveDone /\ call.out.status = "ok") =>
        \A c \in DOMAIN call.out.clusters :
            LET cluster == call.out.clusters[c]
                phantoms == {k \in DOMAIN cluster : cluster[k].is_known}
            IN \A k \in DOMAIN cluster :
                  (phantoms # {} /\ Count(call.out.writes, cluster[k]) = 1) =>
                      \E ph \in phantoms :
                          Canonical(entity_of(call.out.relations, cluster[k]))
                              = Canonical(cluster[ph].known_entity)

\* Some cluster of the first pass holds several distinct (label, name)
AmbiguousCluster ==
    \E c \in DOMAIN call.out.clusters :
        needs_arbitration(call.relations, call.out.clusters[c])

\* C15: with LLM arbitration enabled, when the model answers no-merge for an
\* ambiguous cluster, or the arbitration call fails, no entity of the cluster
\* is rewritten and the pass still completes with its report.
C15_NoForcedMerge ==
    (/\ ResolveDone
     /\ AmbiguousCluster
     /\ call.llm_arbitration
     /\ call.llm \in {"no_merge", "raise"}) =>
        /\ call.out.relations = call.relations
        /\ call.out.writes = <<>>
        /\ call.out.status = "ok"

\* The aliases a pass from `before` to `after` owes the entity of mention m
\* of a cluster: the original names of the cluster's mentions that are not
\* the canonical name, and the aliases the entity carried
OwedAliases(before, after, cluster, m) ==
    ({entity_of(before, cluster[k]).name : k \in DOMAIN cluster}
        \ {entity_of(after, m).name})
    \cup entity_of(before, m).aliases

\* Every entity a pass rewrote carries the aliases owed to it
AliasesKept(before, pass) ==
    \A c \in DOMAIN pass.clusters :
        \A k \in DOMAIN pass.clusters[c] :
            LET m == pass.clusters[c][k]
            IN Count(pass.writes, m) = 1 =>
                  OwedAliases(before, pass.relations, pass.clusters[c], m)
                      \subseteq entity_of(pass.relations, m).aliases

\* C16: the aliases recorded on each rewritten entity contain every
\* non-canonical original name of the merged mentions, and are added to the
\* aliases the entity already carried.
C16_AliasesAccumulate ==
    /\ ResolveDone => AliasesKept(call.relations, call.out)
    /\ (ResolveDone /\ call.phase = "twice") =>
           AliasesKept(call.out.relations, call.again)

\* C17: a second resolve_entities pass on the relations returned by a first
\* pass (same known entities, same configuration) applies no further merge:
\* its report has no merges and its unique_after is the first pass's.
C17_SecondPassIdle ==
    (call.fn = "resolve_entities" /\ call.phase = "twice"
        /\ call.again.status = "ok") =>
        /\ call.again.report.merges = <<>>
        /\ call.again.writes = <<>>
        /\ call.again.report.unique_after = call.out.report.unique_after

\* A call of Pipeline.process returned a result built from a batch
Exported == pc = "done" /\ result.status = "ok" /\ all_relations # <<>>

\* The entity occurrences of the batch: relation index and position in
\* all_entities
Occurrences ==
    {<<i, k>> : i \in DOMAIN all_relations, k \in 1..3} \cap
    {o \in (DOMAIN all_relations) \X (1..3) :
        o[2] \in DOMAIN all_entities(all_relations[o[1]].roles)}

\* The graph holds the Mention node of occurrence o, with its surface form
\* of before resolution and its entity name and label of after
HasMentionNode(o) ==
    LET rel == all_relations[o[1]]
        entity == all_entities(rel.roles)[o[2]]
    IN \E n \in DOMAIN result.nodes :
          /\ result.nodes[n].labels = <<"Mention">>
          /\ result.nodes[n].id = generate_mention_id(source_chunk_id(rel),
                 surface_snapshot[o[1]][o[2]][1], entity.name, entity.label)
          /\ result.nodes[n].properties.surface_form = surface_snapshot[o[1]][o[2]][1]
          /\ result.nodes[n].properties.entity_name = entity.name
          /\ result.nodes[n].properties.entity_label = entity.label

\* The graph holds the HAS_MENTION edge of occurrence o, from its chunk or,
\* when no chunk is known, from its document
HasMentionEdge(o) ==
    LET rel == all_relations[o[1]]
        entity == all_entities(rel.roles)[o[2]]
        chunk_id == source_chunk_id(rel)
    IN GraphEdge(IF chunk_id # <<>> THEN chunk_id ELSE document_node_id(rel.doc),
                 generate_mention_id(chunk_id, surface_snapshot[o[1]][o[2]][1],
                                     entity.name, entity.label),
                 "HAS_MENTION") \in Range(result.edges)

\* The graph holds the Entity node of occurrence o and the REFERS_TO edge
\* from its Mention node
RefersToEntity(o) ==
    LET rel == all_relations[o[1]]
        entity == all_entities(rel.roles)[o[2]]
        ent_id == entity_id(entity.label, entity.name)
    IN /\ \E n \in DOMAIN result.nodes :
             result.nodes[n].id = ent_id /\ result.nodes[n].labels[1] = "Entity"
       /\ GraphEdge(generate_mention_id(source_chunk_id(rel),
                        surface_snapshot[o[1]][o[2]][1], entity.name, entity.label),
                    ent_id, "REFERS_TO") \in Range(result.edges)

\* A relation of the document of occurrence o that passed validation refers
\* to the canonical (label, name) of o
CanonicalRetained(o) ==
    LET rel == all_relations[o[1]]
        entity == all_entities(rel.roles)[o[2]]
    IN \E r \in DOMAIN result.relations :
          /\ result.relations[r].doc = rel.doc
          /\ \E e \in Range(all_entities(result.relations[r].roles)) :
                e.label = entity.label /\ e.name = entity.name

GraphBuilt == call.fn = "build_graph_elements" /\ call.phase \in {"done", "permuted"}

\* The entity occurrences of the relations handed to build_graph_elements
GraphOccurrences ==
    {o \in (DOMAIN call.relations) \X (1..3) :
        o[2] \in DOMAIN all_entities(call.relations[o[1]].roles)}

GraphEntity(o) == all_entities(call.relations[o[1]].roles)[o[2]]

\* The IDs of the Entity nodes the role edges of occurrence o point to: an
\* edge of the relation's node, typed by the role, to a node that carries
\* the (label, name) of o
RoleTargets(o) ==
    {e.target_id : e \in
        {e \in Range(call.out.edges) :
            /\ e.source_id = relation_node_id(call.relations[o[1]])
            /\ e.relation_type \in {"AGENT", "THEME", "CONTEXT"}
            /\ \E n \in DOMAIN call.out.nodes :
                  /\ call.out.nodes[n].id = e.target_id
                  /\ call.out.nodes[n].labels = <<"Entity", GraphEntity(o).label>>
                  /\ call.out.nodes[n].properties.name = GraphEntity(o).name}}

C20_SameIdSameProperties ==
    /\ GraphBuilt =>
          \A o1, o2 \in GraphOccurrences :
              entity_node(GraphEntity(o1)).id = entity_node(GraphEntity(o2)).id
                 => entity_node(GraphEntity(o1)) = entity_node(GraphEntity(o2))
    /\ (GraphBuilt /\ call.phase = "permuted") =>
          Range(call.permuted.nodes) = Range(call.out.nodes)

\* run_symbolic_validation has returned
QuotesChecked == call.fn = "run_symbolic_validation" /\ call.phase = "done"

\* The reference text of an evidence item: the text of its chunk when the
\* chunk is known, the text of the document otherwise (empty when unknown)
ReferenceText(ev) ==
    IF ev.chunk_id # <<>> /\ ev.chunk_id \in DOMAIN call.chunk_texts
    THEN call.chunk_texts[ev.chunk_id]
    ELSE DictGet(call.doc_texts, call.relations[1].doc, <<>>)

\* The evidence items whose quote is not an exact substring of its reference
Misquoted ==
    {k \in DOMAIN call.relations[1].evidence :
        ~IsSubstr(call.relations[1].evidence[k].quote,
                  ReferenceText(call.relations[1].evidence[k]))}

QuoteViolations ==
    SelectSeq(call.out, LAMBDA v : v.rule_name = "quote_not_verbatim")

\* C21 (as stated): run_symbolic_validation yields an error-severity
\* quote_not_verbatim violation for a relation exactly when one of its quotes
\* is not an exact substring of its reference text.
C21_QuoteViolationIff ==
    QuotesChecked =>
        /\ (QuoteViolations # <<>>) <=> (Misquoted # {})
        /\ \A i \in DOMAIN QuoteViolations : QuoteViolations[i].severity = "error"

\* C21 (amended): one error-severity quote_not_verbatim violation per quote
\* that has a non-empty reference text and is not an exact substring of it;
\* a quote without reference text (no chunk text and no document text)
\* yields none.
C21_QuoteViolationIffReference ==
    QuotesChecked =>
        /\ Len(QuoteViolations) =
              Cardinality({k \in Misquoted :
                  ReferenceText(call.relations[1].evidence[k]) # <<>>})
        /\ \A i \in DOMAIN QuoteViolations : QuoteViolations[i].severity = "error"

\* A relation with a quote of the document that is not in its chunk, and a
\* quote checked against the document for want of a chunk
C21_Witness ==
    /\ QuotesChecked
    /\ Len(QuoteViolations) = 1
    /\ Len(call.relations[1].evidence) = 2
    /\ \E k \in Misquoted :
          /\ call.relations[1].evidence[k].chunk_id \in DOMAIN call.chunk_texts
          /\ IsSubstr(call.relations[1].evidence[k].quote,
                      DictGet(call.doc_texts, "d1", <<>>))
    /\ \E k \in DOMAIN call.relations[1].evidence :
          k \notin Misquoted /\ call.relations[1].evidence[k].chunk_id = <<>>

\* ------------------------------------------------------------------------
\* Claims about chunk_document
\* ------------------------------------------------------------------------
ChunkDone == call.fn = "chunk_document" /\ call.phase = "done"

\* C22: every chunk returned by chunk_document has a token count of at most
\* max_tokens, for every text, every max_tokens >= 1 and every
\* overlap_tokens, long segments without punctuation or whitespace included.
C22_ChunksWithinBudget ==
    call.fn = "chunk_document" =>
        \A i \in DOMAIN call.out : call.out[i].token_count <= call.max_tokens

\* C23: for a non-blank text the segments concatenate back to the text, every
\* chunk's text is text[start_char:end_char], the first chunk starts at 0,
\* the last ends at len(text), and each chunk starts at or before the end of
\* the chunk before it.
C23_ChunksCoverText ==
    (ChunkDone /\ ~TextIsBlank(call.text)) =>
        /\ Flatten(call.sentences) = call.text
        /\ call.out # <<>>
        /\ \A i \in DOMAIN call.out :
              call.out[i].text =
                  Slice(call.text, call.out[i].start_char, call.out[i].end_char)
        /\ call.out[1].start_char = 0
        /\ call.out[Len(call.out)].end_char = Len(call.text)
        /\ \A i \in 1..(Len(call.out) - 1) :
              call.out[i + 1].start_char <= call.out[i].end_char

\* A text of three sentences returned as two chunks that share the middle one
C23_Witness ==
    /\ ChunkDone
    /\ Len(split_sentences(call.text)) = 3
    /\ Len(call.out) = 2
    /\ call.out[2].start_char > 0
    /\ call.out[2].start_char < call.out[1].end_char

\* C24: after a non-final window is emitted with overlap_tokens > 0 the
\* cursor, where the next window starts, is at a segment of the emitted
\* window, so the next chunk shares text with the one just emitted.
C24_NextWindowSharesText ==
    (/\ call.fn = "chunk_document"
     /\ call.phase = "window"
     /\ call.out # <<>>
     /\ call.overlap_tokens > 0) =>
        LET emitted == call.out[Len(call.out)]
            next_start == start_char_of(call.sentences, call.idx)
        IN emitted.start_char <= next_start /\ next_start < emitted.end_char

\* C26: chunk_document returns for every input with max_tokens >= 1: each
\* pass of the window loop that does not end the call moves the cursor
\* forward, a pass that ends the call leaves the cursor where its window
\* starts and emits the chunk that ends at the end of the text, and a call
\* that has entered the window loop reaches its return.
C26_ChunkingTerminates ==
    /\ [][call.fn = "chunk_document" /\ call.phase = "window" =>
              /\ call'.phase = "window" => call'.idx > call.idx
              /\ call'.phase = "done" =>
                    /\ call'.idx = call.idx
                    /\ call'.out[Len(call'.out)].end_char = Len(call.text)]_vars
    /\ (call.fn = "chunk_document" /\ call.phase = "window") ~> ChunkDone

\* A returned call on a text that was hard-split, with overlap asked for,
\* whose rewind came back to the first segment of a window: the next chunk
\* starts where that window ends
C26_Witness ==
    /\ ChunkDone
    /\ call.overlap_tokens > 0
    /\ Len(call.sentences) > Len(split_sentences(call.text))
    /\ Len(call.out) > 2
    /\ \E i \in 1..(Len(call.out) - 1) :
          /\ call.out[i + 1].start_char = call.out[i].end_char
          /\ call.out[i].token_count >= call.overlap_tokens

\* ------------------------------------------------------------------------
\* Claims about quotes across the chunking of the pipeline
\* ------------------------------------------------------------------------
\* The quote_not_verbatim violations _validate gives a relation of the batch
BatchQuoteViolations(relation) ==
    SelectSeq(validate_relation(relation, generic_entity_blocklist,
                                doc_texts_of(documents), chunk_texts_of(doc_chunks)),
              LAMBDA v : v.rule_name = "quote_not_verbatim")

\* Every quote of the relation is an exact substring of its document's text
QuotesInDocument(relation) ==
    \A k \in DOMAIN relation.evidence :
        IsSubstr(relation.evidence[k].quote,
                 DictGet(doc_texts_of(documents), relation.doc, <<>>))

\* C29: a relation whose quotes are all exact substrings of its document's
\* text receives no quote_not_verbatim violation after chunking, chunk-ID
\* assignment and validation, a quote across two chunks included.
C29_DocumentQuotesPass ==
    pc \in {"export", "done"} =>
        \A i \in DOMAIN all_relations :
            QuotesInDocument(all_relations[i]) =>
                BatchQuoteViolations(all_relations[i]) = <<>>

\* ------------------------------------------------------------------------
\* Claims about the cache of ontology type embeddings
\* ------------------------------------------------------------------------
\* C25: across drift checks and ontology replacements, the type embeddings a
\* drift computation uses are those of the current ontology's relation-type
\* text list, and they are recomputed exactly when that list differs from the
\* list seen by the last computation.
C25_TypeEmbeddingsCurrent ==
    [][(call.fn = "compute_drift_score" /\ call'.step = "drift") =>
          /\ call'.used => call'.type_emb = compute_embeddings(call.type_texts)
          /\ call'.recomputed <=>
                (/\ call'.used
                 /\ call.type_texts # call.cached_ontology_type_texts)]_vars

\* ------------------------------------------------------------------------
\* Claims about documents_since_last_negotiation
\* ------------------------------------------------------------------------
\* documents_since_last_negotiation of the ontology at address o of heap h
CounterOf(h, o) == h[o].documents_since_last_negotiation

\* C27: a batch of n documents that completes the full path through export
\* leaves the counter at n; one that completes the fast path leaves it at the
\* value it had plus n, which is n when the Arbiter replaced the ontology
\* during the batch since the replacement starts at 0; every other step of a
\* batch, the early returns of the full path included, leaves the counter of
\* the ontology in place unchanged.
C27_CounterFollowsBatches ==
    [][/\ (pc = "export" /\ pc' = "done" /\ HasOntology) =>
             /\ ontology' = ontology
             /\ CounterOf(heap', ontology) =
                   IF path = "full" THEN Len(documents)
                   ELSE CounterOf(heap, ontology) + Len(documents)
       /\ (pc = "arbiter" /\ pc' # "arbiter") =>
             /\ ontology' # 0
             /\ CounterOf(heap', ontology') = 0
       /\ (pc \notin {"export", "arbiter"} /\ HasOntology) =>
             /\ ontology' = ontology
             /\ CounterOf(heap', ontology) = CounterOf(heap, ontology)]_vars

\* A second batch on the fast path, without drift, in which the Arbiter
\* replaced the ontology: the counter is the size of the batch
C27_Witness ==
    /\ pc = "done"
    /\ path = "fast"
    /\ ~restarted
    /\ result.status = "ok"
    /\ result.relations # <<>>
    /\ HasOntology
    /\ Current.version > 1
    /\ CounterOf(heap, ontology) = Len(documents)

\* The node IDs of a build_graph_elements output
GraphNodeIds(out) == {out.nodes[i].id : i \in DOMAIN out.nodes}

\* Every node ID of the output occurs once and both ends of every edge are
\* nodes of the output
GraphClosed(out) ==
    /\ \A i, j \in DOMAIN out.nodes : out.nodes[i].id = out.nodes[j].id => i = j
    /\ \A e \in Range(out.edges) :
          e.source_id \in GraphNodeIds(out) /\ e.target_id \in GraphNodeIds(out)

\* C28: in one build_graph_elements output every node ID occurs once, and
\* the source_id and target_id of every edge (HAS_CHUNK, EXTRACTED_FROM, role
\* edges, HAS_MENTION, REFERS_TO) are IDs of nodes of that same output,
\* whatever chunk IDs the relations and the mentions carry.
C28_EdgesStayInOutput ==
    /\ GraphBuilt => GraphClosed(call.out)
    /\ (GraphBuilt /\ call.phase = "permuted") => GraphClosed(call.permuted)

\* A graph built without chunks from a relation and mentions that name a
\* chunk: the relation and the mentions hang off the Document node, an
\* entity is shared by two relations, and no node carries the chunk's ID
C28_Witness ==
    /\ GraphBuilt
    /\ call.chunks = <<>>
    /\ \E i \in DOMAIN call.relations : source_chunk_id(call.relations[i]) # <<>>
    /\ \E m \in DOMAIN call.mentions :
          /\ call.mentions[m].chunk_id # <<>>
          /\ call.mentions[m].chunk_id \notin GraphNodeIds(call.out)
          /\ GraphEdge(document_node_id(call.document_id),
                       call.mentions[m].mention_id, "HAS_MENTION")
                \in Range(call.out.edges)
    /\ \E e \in Range(call.out.edges) : e.relation_type = "REFERS_TO"
    /\ Len(call.relations) = 2
    /\ Len(call.out.nodes) < 1 + 2 + 4 + Len(call.mentions)

\* C30: after resolve_entities returns, any two non-phantom entities of the
\* batch whose Stage-1 normalised (label, name) keys were equal before the
\* pass have identical (label, name), whatever the Stage-2 clustering and
\* the Stage-3 arbitration decided.
C30_SameKeySameName ==
    (ResolveDone /\ call.out.status = "ok" /\ call.relations # <<>>) =>
        LET before == build_mentions(call.relations)
            after(m) == entity_of(call.out.relations, m)
        IN \A i, j \in DOMAIN before :
              before[i].norm_key = before[j].norm_key =>
                 /\ after(before[i]).label = after(before[j]).label
                 /\ after(before[i]).name = after(before[j]).name

====
